---- MODULE Spec2Model ----
(***************************************************************************)
(* Raspiscope: the acquisition orchestrator (analysis.py, class Analysis)  *)
(* together with the camera module that answers its capture requests       *)
(* (application/camera.py, class Camera).                                  *)
(*                                                                         *)
(* Analysis.handleMessage runs on the module's single message loop, so one *)
(* message is handled at a time.  Calibrate, NewSubstanceName, AddSubstance*)
(* and Analyze are handled inside the loop; PictureTaken is handled inline *)
(* by _handleNewSubstanceCapture (the loop is busy until it returns);      *)
(* _performCalibration and performAnalysis run in threads of their own and *)
(* interleave with the loop and with each other.                           *)
(***************************************************************************)
EXTENDS Integers, Sequences, FiniteSets, TLC

VARIABLES
    calibrationInProgress,  \* Analysis.calibrationInProgress
    newSubstanceState,      \* Analysis._newSubstanceState: None or Some([substance, status])
    baseIntensityProfile,   \* Analysis.baseIntensityProfile: None or Some(profile)
    configBaseProfile,      \* modules.analysis.base_intensity_profile in the config file
    referenceSpectra,       \* Analysis.referenceSpectra: None or Some(sequence of entries)
    hpc,                    \* where the message loop of Analysis is
    hImage,                 \* the payload the message loop is working on
    hFor,                   \* the camera command the picture in hand was taken for
    workers,                \* the running threads started by handleMessage (a bag)
    cameraReady,            \* Camera.camera is not None
    camInbox,               \* messages on their way to Camera, by type
    anaInbox,               \* messages of Camera on their way to Analysis
    budget,                 \* commands the environment may still send
    out,                    \* the events sent by the last step
    calInFlight,            \* the last accepted calibration has not ended yet
    nsTrack,                \* bookkeeping of the current new-substance acquisition
    referenceFile,          \* the file at Analysis.referenceSpectraPath
    storePc,                \* where a call of _store_reference_spectrum is, step by step
    storeArg,               \* the entry that call is appending
    captureLock,            \* Camera._capture_lock: 0 or the capture thread that holds it
    lightReady,             \* Camera._light_ready_event
    capture,                \* the capture threads of Camera: where each is and its reply
    sweepPc,                \* Camera.calibrate: 0, or the frame its sweep captures next
    lightInbox,             \* TurnedOn acknowledgments on their way to Camera
    lightLog,               \* the last request a capture sent to LightSource
    calib,                  \* Camera.calibrate step by step: its sweep, the controls, config.json
    pipeline,               \* a call of Analysis.performAnalysis step by step
    gui,                    \* GUI: the name popup and the messages to and from it
    sensor                  \* CuvetteSensor: its mode, its monitor process, the pipe

vars == <<calibrationInProgress, newSubstanceState, baseIntensityProfile,
          configBaseProfile, referenceSpectra, hpc, hImage, hFor, workers,
          cameraReady, camInbox, anaInbox, budget, out, calInFlight, nsTrack, referenceFile,
          storePc, storeArg, captureLock, lightReady, capture, sweepPc, lightInbox,
          lightLog, calib, pipeline, gui, sensor>>

\* the state of a call of _store_reference_spectrum followed step by step
storeVars == <<storePc, storeArg>>

\* the state of the capture threads and of the sweep of Camera
captureVars == <<captureLock, lightReady, capture, sweepPc, lightInbox, lightLog>>

\* the state of the calls that are followed step by step
stepVars == <<calib, pipeline, gui, sensor>>

analysisVars == <<calibrationInProgress, newSubstanceState, baseIntensityProfile,
                  configBaseProfile, referenceSpectra>>

(***************************************************************************)
(* Bounds                                                                  *)
(***************************************************************************)
\* commands the environment sends in one run
MaxCmds == 3

\* PictureTaken messages counted for one new-substance acquisition
MaxPictures == 2

(***************************************************************************)
(* Values                                                                  *)
(***************************************************************************)
\* Python's None and a present value: an optional value is a sequence of at most
\* one element.
None == <<>>
Some(x) == <<x>>
Val(o) == o[1]

\* Image payloads: "" is a missing or empty image field, "badpad" is text
\* base64.b64decode raises on (incorrect padding), "garbage" is data
\* cv2.imdecode rejects, "noroi" decodes but is too small for the manual ROI,
\* "imgA" decodes and contains the ROI.
Images == {"", "badpad", "garbage", "noroi", "imgA"}

\* base64.b64decode(imageB64) raises binascii.Error
Malformed(img) == img = "badpad"

\* What Camera.takePicture can return: a JPEG of the frame.
CameraImages == {"noroi", "imgA"}

\* A PictureTaken payload is an empty dict or a dict with an image field.
NoPayload == "NoPayload"
Payloads == {NoPayload} \cup Images

\* Names a NewSubstanceName command may carry (a missing name reads as "").
Names == {"", " ", "NaCl", " KCl "}

\* str.strip() on the names above
Strip(name) ==
    CASE name = " "     -> ""
      [] name = " KCl " -> "KCl"
      [] OTHER          -> name

\* cv2.imdecode(...) is not None
Decodable(img) == img \in {"noroi", "imgA"}

\* the manual ROI is inside the image (extractSpectrogramProfile does not raise)
RoiValid(img) == img = "imgA"

\* extractSpectrogramProfile: the column means of the ROI of the image
extractSpectrogramProfile(img) == IF img = "imgA" THEN <<3, 1>> ELSE <<>>

\* the base profile the configuration holds when Analysis starts, if it holds one
ConfiguredBaseProfile == <<2, 2>>

\* _get_resampled_base_profile: every profile is taken from the same manual ROI,
\* so the base profile has the target length and is returned as it is
getResampledBaseProfile(base, targetLength) == base

\* diffProfile = baseProfile - intensityProfile
DiffProfile(base, profile) ==
    [i \in 1..Len(profile) |->
        getResampledBaseProfile(base, Len(profile))[i] - profile[i]]

Ev(type, status, substance) == <<type, status, substance>>

\* bags of messages and of threads, as functions to counts
BagAdd(b, x)    == [b EXCEPT ![x] = @ + 1]
BagRemove(b, x) == [b EXCEPT ![x] = @ - 1]

CameraCommands == {"Analyze", "CuvettePresent", "Take"}
CameraReplies  == {"Analyze", "PictureTaken"}

\* the reply Camera.handleMessage asks _schedule_picture_capture to send
ReplyType(cmd) == IF cmd = "Take" THEN "PictureTaken" ELSE "Analyze"

\* A message of Camera: its type, its image, and the command the picture was
\* taken for, which the message itself does not carry
CameraMessages ==
    {<<ReplyType(cmd), img, cmd>> : cmd \in CameraCommands, img \in CameraImages}

\* A thread of Analysis: the function it runs (kind), where it is (pc), the
\* image it was given and whether it was started for the last accepted
\* calibration (cur).
Threads ==
    [kind : {"cal"}, pc : {"try", "finally"}, image : CameraImages, cur : BOOLEAN]
    \cup [kind : {"ana"}, pc : {"try"}, image : CameraImages, cur : {FALSE}]

Thread(kind, img, cur) == [kind |-> kind, pc |-> "try", image |-> img, cur |-> cur]

FreshTrack == [pictures |-> 0, appended |-> 0, terminal |-> 0]

(***************************************************************************)
(* The reference store: the record file and its rows                       *)
(***************************************************************************)
\* rows the record file may hold when a run of the store ends
MaxRows == 4

\* Analyze commands handled in a run of the store
MaxMatches == 1

\* numpy.float32 holds the integers up to this one exactly (2^24, scaled down)
Float32Exact == 4

\* numpy.float32 of a value: beyond the exact range the last bit is rounded
\* off, to the nearest even value, a tie to the multiple of four
Float32(v) ==
    IF v \in (0 - Float32Exact)..Float32Exact \/ v % 2 = 0 THEN v
    ELSE IF (v + 1) % 4 = 0 THEN v + 1 ELSE v - 1

\* numpy.asarray(spectrum, dtype=numpy.float32)
AsFloat32(spectrum) == [i \in 1..Len(spectrum) |-> Float32(spectrum[i])]

\* json.dumps of one float: its text, a sign and the digits
FloatRepr(v) == IF v < 0 THEN <<"-", 0 - v>> ELSE <<"", v>>

\* json.dumps([float(value) for value in numpy.asarray(spectrum, float32)]):
\* the field spectrum_values
JsonDumps(spectrum) == [i \in 1..Len(spectrum) |-> FloatRepr(Float32(spectrum[i]))]

\* a float read without its sign
ParseFloatUnsigned(text) == text[2]

\* float(item) of json.loads in _parse_reference_spectrum
ParseFloat(text) == IF text[1] = "-" THEN 0 - text[2] ELSE text[2]

\* Analysis._parse_reference_spectrum on a field written by JsonDumps
parseReferenceSpectrum(rawSpectrum) ==
    [i \in 1..Len(rawSpectrum) |-> ParseFloat(rawSpectrum[i])]

\* The rows of the file.  "header" is the row of the eight field names,
\* "record" a row written by csv.DictWriter.writerow, "torn" what a write that
\* failed half way left of a row when it was cut before the quoted field
\* spectrum_values, "tornQuoted" when it was cut inside that field, "legacy"
\* the header and rows of a file of single peaks (no spectrum field), "binary"
\* a line that is not UTF-8 text.
HeaderRow == [kind |-> "header", substance |-> "", values |-> <<>>]
LegacyRow == [kind |-> "legacy", substance |-> "", values |-> <<>>]
BinaryRow == [kind |-> "binary", substance |-> "", values |-> <<>>]
RecordRow(entry) ==
    [kind |-> "record", substance |-> entry.substance, values |-> JsonDumps(entry.spectrum)]
TornRows(entry) ==
    {[kind |-> k, substance |-> entry.substance, values |-> <<>>] :
        k \in {"torn", "tornQuoted"}}

\* the entry of the in-memory list for a substance and a spectrum
ReferenceEntry(substance, spectrum) ==
    [substance |-> substance, spectrum |-> AsFloat32(spectrum)]

\* the arguments of _store_reference_spectrum: a name and a spectrum
StoreArg(substance, spectrum) == [substance |-> substance, spectrum |-> spectrum]

\* the spectra a run of the store is given
StoreEntries == {StoreArg("NaCl", <<-2, 5>>), StoreArg("KCl", <<0, 7>>)}

\* A file: whether it exists, its rows, and whether its last byte ends a line.
MissingFile == [exists |-> FALSE, rows |-> <<>>, eol |-> TRUE]
EmptyFile   == [exists |-> TRUE, rows |-> <<>>, eol |-> TRUE]
PopulatedFile ==
    [exists |-> TRUE, eol |-> TRUE,
     rows |-> <<HeaderRow, RecordRow(StoreArg("KCl", <<2, -2>>))>>]
UnterminatedFile == [PopulatedFile EXCEPT !.eol = FALSE]
LegacyFile  == [exists |-> TRUE, rows |-> <<LegacyRow, LegacyRow>>, eol |-> TRUE]
BinaryFile  == [exists |-> TRUE, rows |-> <<BinaryRow>>, eol |-> TRUE]

\* the files Analysis may find when it starts
StartFiles ==
    {MissingFile, EmptyFile, PopulatedFile, UnterminatedFile, LegacyFile, BinaryFile}

\* the loop of Analysis.onStart over the rows csv.DictReader yields under the
\* field names of the first row: a row is kept when it has a spectrum field
\* that parses to a spectrum that is not empty; the quote a row cut inside
\* its quoted field has left open takes the next line into that field
RECURSIVE readRows(_, _)
readRows(fieldnames, rows) ==
    IF rows = <<>> THEN <<>>
    ELSE LET row == Head(rows)
             kept == /\ fieldnames.kind = "header"
                     /\ row.kind = "record"
                     /\ Len(parseReferenceSpectrum(row.values)) > 0
             rest == IF row.kind = "tornQuoted" /\ Len(rows) > 1
                     THEN Tail(Tail(rows)) ELSE Tail(rows)
         IN (IF kept
             THEN <<[substance |-> row.substance,
                     spectrum  |-> parseReferenceSpectrum(row.values)]>>
             ELSE <<>>) \o readRows(fieldnames, rest)

\* Analysis.onStart: referenceSpectra after the file was read; None is kept
\* when the file is missing (FileNotFoundError) or cannot be decoded
onStart(file) ==
    IF ~file.exists THEN None
    ELSE IF \E i \in 1..Len(file.rows) : file.rows[i].kind = "binary" THEN None
    ELSE IF file.rows = <<>> THEN Some(<<>>)
    ELSE Some(readRows(Head(file.rows), Tail(file.rows)))

\* a header for every append
needsHeaderAlways(file) == TRUE

\* _store_reference_spectrum: needsHeader, lines 584-587
needsHeader(file) == ~file.exists \/ file.rows = <<>>

\* _store_reference_spectrum: appendNewline, lines 589-599
appendNewline(file) == ~needsHeader(file) /\ ~file.eol

\* the rows of a file after text was appended to it: text that follows a last
\* line without its line end runs into that line and spoils its last field
appendedRows(file, newline, new) ==
    IF file.rows = <<>> \/ file.eol \/ newline
    THEN file.rows \o new
    ELSE SubSeq(file.rows, 1, Len(file.rows) - 1)
            \o <<[file.rows[Len(file.rows)] EXCEPT !.kind = "torn"]>>
            \o Tail(new)

\* _store_reference_spectrum, lines 601-619: the file after the write
writtenFile(file, entry) ==
    [exists |-> TRUE,
     rows   |-> appendedRows(file, appendNewline(file),
                    (IF needsHeader(file) THEN <<HeaderRow>> ELSE <<>>)
                        \o <<RecordRow(entry)>>),
     eol    |-> TRUE]

\* the files a write that raises may leave: the file as it was, or the file
\* with what was written of the row
failedFiles(file, entry) ==
    {file} \cup
    {[exists |-> TRUE,
      rows   |-> appendedRows(file, appendNewline(file),
                     (IF needsHeader(file) THEN <<HeaderRow>> ELSE <<>>) \o <<torn>>),
      eol    |-> FALSE] : torn \in TornRows(entry)}

\* Camera: the capture threads followed step by step
MaxCaptures == 2

\* frames the sweep of Camera.calibrate captures
MaxSweep == 1

\* what LightSource answers to TurnOn and to TurnOff
LightAcks == {"TurnedOn", "TurnedOff"}

\* An answer of LightSource on its way to Camera: the acknowledgment, and
\* whether it answers a request of the last capture that sent TurnOn, which
\* the message itself does not carry
LightMessages == LightAcks \X BOOLEAN

\* no answer of LightSource is on its way to Camera
NoAcks == [m \in LightMessages |-> 0]

\* LightSource answers a request of the capture that runs, or does not
Acked(inbox, ack) == {inbox, BagAdd(inbox, <<ack, TRUE>>)}

\* the answers on their way once a further capture sends its TurnOn: they
\* all belong to earlier captures
Earlier(inbox) ==
    [m \in LightMessages |->
        IF m[2] THEN 0 ELSE inbox[m] + inbox[<<m[1], TRUE>>]]

\* a capture thread that does not run
NoCapture == [pc |-> "none", reply |-> "Analyze", frame |-> FALSE]

(***************************************************************************)
(* Initial state: after __init__ and onStart of both modules               *)
(***************************************************************************)
\* Camera.calibrate has not been called: the controls and config.json hold
\* the gain the camera was configured with
NoBest ==
    [gain |-> None, exposure |-> None, rgb |-> None, brightness |-> None, score |-> 0]

NoCalib ==
    [pc |-> "idle", tried |-> 0, best_settings |-> NoBest,
     loop |-> [gain |-> 1, exposure |-> 1, rgb |-> 1, brightness |-> 1],
     tested |-> None, stopEvent |-> FALSE,
     controls |-> 1, gain |-> 1, config |-> [kind |-> "ok", gain |-> 1]]

\* Analysis.performAnalysis has not been called
NoPipeline == [pc |-> "idle"]

\* GUI shows no popup and nothing is on its way to it or from it
NoGui == [popup |-> FALSE, text |-> "", requests |-> 0, scheduled |-> 0,
          toAnalysis |-> <<>>]

\* CuvetteSensor after __init__: the mode is Analysis and nothing monitors
NoSensor ==
    [variant |-> "process", mode |-> "Analysis", monitorMode |-> "Analysis",
     pc |-> "off", is_active |-> TRUE, previousState |-> FALSE,
     isPresent |-> FALSE, toMonitor |-> <<>>, toListener |-> <<>>,
     toggles |-> 0, dispatched |-> 0, detectedIn |-> ""]

Init ==
    /\ calibrationInProgress = FALSE
    /\ newSubstanceState = None
    /\ baseIntensityProfile \in {None, Some(ConfiguredBaseProfile)}
    /\ configBaseProfile = baseIntensityProfile
    /\ referenceFile \in {MissingFile, EmptyFile}
    /\ referenceSpectra = onStart(referenceFile)
    /\ hpc = "idle"
    /\ hImage = ""
    /\ hFor = ""
    /\ workers = [t \in Threads |-> 0]
    /\ cameraReady \in BOOLEAN
    /\ camInbox = [c \in CameraCommands |-> 0]
    /\ anaInbox = [m \in CameraMessages |-> 0]
    /\ budget = MaxCmds
    /\ out = {}
    /\ calInFlight = FALSE
    /\ nsTrack = FreshTrack
    /\ storePc = "idle"
    /\ storeArg = None
    /\ captureLock = 0
    /\ lightReady = FALSE
    /\ capture = [w \in 1..MaxCaptures |-> NoCapture]
    /\ sweepPc = 0
    /\ lightInbox = NoAcks
    /\ lightLog = "TurnOff"
    /\ calib = NoCalib
    /\ gui = NoGui
    /\ sensor = NoSensor
    /\ pipeline = NoPipeline

(***************************************************************************)
(* Analysis: the handlers of handleMessage                                 *)
(***************************************************************************)

\* the threads once a further calibration is accepted: those of earlier
\* calibrations no longer belong to the last one
Outdated(w) ==
    [t \in Threads |->
        IF t.kind = "cal" /\ t.cur THEN 0
        ELSE IF t.kind = "cal" THEN w[t] + w[[t EXCEPT !.cur = TRUE]]
        ELSE w[t]]

\* Analysis.calibrate
calibrate ==
    \/ /\ calibrationInProgress
       /\ out' = {}
       /\ UNCHANGED <<calibrationInProgress, camInbox, calInFlight, workers>>
    \/ /\ ~calibrationInProgress
       /\ calibrationInProgress' = TRUE
       /\ calInFlight' = TRUE
       /\ workers' = Outdated(workers)
       /\ camInbox' = BagAdd(camInbox, "Analyze")
       /\ out' = {Ev("AnalysisCalibration", "started", "")}
    \/ /\ ~calibrationInProgress    \* sendMessage("Camera","Analyze") raises
       /\ calibrationInProgress' = FALSE
       /\ calInFlight' = FALSE
       /\ workers' = Outdated(workers)
       /\ camInbox' = camInbox
       /\ out' = {Ev("AnalysisCalibration", "started", ""),
                  Ev("AnalysisCalibration", "error", "")}

\* newSubstance without the check of the slot
newSubstanceRaisesSlotUnchecked(name) ==
    \/ calibrationInProgress
    \/ Strip(name) = ""
    \/ baseIntensityProfile = None

\* newSubstance without the check of the baseline
newSubstanceRaisesBaselineUnchecked(name) ==
    \/ calibrationInProgress
    \/ Strip(name) = ""
    \/ newSubstanceState # None

\* the checks of Analysis.newSubstance that raise
newSubstanceRaises(name) ==
    \/ calibrationInProgress
    \/ Strip(name) = ""
    \/ baseIntensityProfile = None
    \/ newSubstanceState # None

\* Analysis.newSubstance, with the except clause of handleMessage around it
newSubstance(name) ==
    \/ /\ newSubstanceRaises(name)
       /\ out' = {Ev("NewReferenceCapture", "error", Strip(name))}
       /\ UNCHANGED <<newSubstanceState, camInbox, nsTrack>>
    \/ /\ ~newSubstanceRaises(name)
       /\ newSubstanceState' = Some([substance |-> Strip(name), status |-> "waiting_image"])
       /\ camInbox' = BagAdd(camInbox, "Take")
       /\ nsTrack' = FreshTrack
       /\ out' = {Ev("NewReferenceCapture", "requested", Strip(name))}

\* one more PictureTaken payload seen for the acquisition
Counted(track) ==
    [track EXCEPT !.pictures = IF @ < MaxPictures THEN @ + 1 ELSE @]

\* Analysis._handleNewSubstanceCapture up to the end of its first locked section
handleNewSubstanceCapture(payload) ==
    \/ /\ payload = NoPayload
       /\ UNCHANGED <<newSubstanceState, hpc, hImage, nsTrack>>
    \/ /\ payload # NoPayload
       /\ IF newSubstanceState = None
          THEN TRUE
          ELSE Val(newSubstanceState).status = "processing"
       /\ nsTrack' = Counted(nsTrack)
       /\ UNCHANGED <<newSubstanceState, hpc, hImage>>
    \/ /\ payload # NoPayload
       /\ newSubstanceState # None
       /\ Val(newSubstanceState).status # "processing"
       /\ newSubstanceState' = Some([Val(newSubstanceState) EXCEPT !.status = "processing"])
       /\ hpc' = "newSubstanceCapture"
       /\ hImage' = payload
       /\ nsTrack' = Counted(nsTrack)

\* Analysis.handleMessage, type Analyze, from line 140 on: the image is checked
\* and a thread is started; calibrationInProgress is read as it is now
analyzeImage(img, sentBefore) ==
    \/ /\ img = ""
       /\ ~calibrationInProgress
       /\ out' = sentBefore \cup {Ev("AnalysisError", "", "")}
       /\ UNCHANGED <<calibrationInProgress, calInFlight, workers>>
    \/ /\ img = ""
       /\ calibrationInProgress            \* _calibrationFailed
       /\ out' = sentBefore \cup {Ev("AnalysisError", "", ""),
                                  Ev("AnalysisCalibration", "error", "")}
       /\ calibrationInProgress' = FALSE
       /\ calInFlight' = FALSE
       /\ UNCHANGED workers
    \/ /\ Malformed(img)                   \* line 149 raises out of handleMessage
       /\ out' = sentBefore
       /\ UNCHANGED <<calibrationInProgress, calInFlight, workers>>
    \/ /\ img # ""
       /\ ~Malformed(img)
       /\ ~Decodable(img)
       /\ ~calibrationInProgress
       /\ out' = sentBefore \cup {Ev("AnalysisError", "", "")}
       /\ UNCHANGED <<calibrationInProgress, calInFlight, workers>>
    \/ /\ img # ""
       /\ ~Malformed(img)
       /\ ~Decodable(img)
       /\ calibrationInProgress            \* _calibrationFailed
       /\ out' = sentBefore \cup {Ev("AnalysisError", "", ""),
                                  Ev("AnalysisCalibration", "error", "")}
       /\ calibrationInProgress' = FALSE
       /\ calInFlight' = FALSE
       /\ UNCHANGED workers
    \/ /\ Decodable(img)
       /\ calibrationInProgress
       /\ workers' = BagAdd(workers, Thread("cal", img, TRUE))
       /\ out' = sentBefore
       /\ UNCHANGED <<calibrationInProgress, calInFlight>>
    \/ /\ Decodable(img)
       /\ ~calibrationInProgress
       /\ workers' = BagAdd(workers, Thread("ana", img, FALSE))
       /\ out' = sentBefore
       /\ UNCHANGED <<calibrationInProgress, calInFlight>>

\* handleMessage without the check of the reference data
handleAnalyzeReferenceUnchecked(img) ==
    \/ /\ ~calibrationInProgress
       /\ analyzeImage(img, {Ev("AnalysisRequested", "received", "")})
       /\ UNCHANGED <<hpc, hImage>>
    \/ /\ calibrationInProgress
       /\ hpc' = "analyze"
       /\ hImage' = img
       /\ out' = {}
       /\ UNCHANGED <<calibrationInProgress, calInFlight, workers>>

\* Analysis.handleMessage, type Analyze, lines 128-139
handleAnalyze(img) ==
    \/ /\ ~calibrationInProgress
       /\ referenceSpectra = None
       /\ out' = {Ev("AnalysisRequested", "received", ""), Ev("AnalysisError", "", "")}
       /\ UNCHANGED <<calibrationInProgress, calInFlight, workers, hpc, hImage>>
    \/ /\ ~calibrationInProgress
       /\ referenceSpectra # None
       /\ analyzeImage(img, {Ev("AnalysisRequested", "received", "")})
       /\ UNCHANGED <<hpc, hImage>>
    \/ /\ calibrationInProgress
       /\ hpc' = "analyze"
       /\ hImage' = img
       /\ out' = {}
       /\ UNCHANGED <<calibrationInProgress, calInFlight, workers>>

\* Analysis._store_reference_spectrum: the entry appended to the in-memory list
storeReferenceSpectrum(spectrum, substance) ==
    Some(Append(IF referenceSpectra = None THEN <<>> ELSE Val(referenceSpectra),
                ReferenceEntry(substance, spectrum)))

\* what makes the try block of _handleNewSubstanceCapture raise before the store
newSubstanceCaptureRaises(img) ==
    \/ img = ""
    \/ ~Decodable(img)
    \/ ~RoiValid(img)
    \/ baseIntensityProfile = None

\* a finally clause that leaves the slot as it is
SlotKept == newSubstanceState

\* a finally clause that makes the slot wait for an image again
SlotWaitingAgain == Some([Val(newSubstanceState) EXCEPT !.status = "waiting_image"])

\* the finally clause of _handleNewSubstanceCapture: self._newSubstanceState = None
SlotAfterCapture == None

\* Analysis._handleNewSubstanceCapture from its try block to its end: the
\* try block, its except clause and the finally clause that empties the slot
newSubstanceCapture ==
    /\ hpc = "newSubstanceCapture"
    /\ \/ /\ newSubstanceCaptureRaises(hImage)
          /\ out' = {Ev("NewReferenceCapture", "error", Val(newSubstanceState).substance)}
          /\ nsTrack' = [nsTrack EXCEPT !.terminal = @ + 1]
          /\ UNCHANGED <<referenceSpectra, referenceFile>>
       \/ /\ ~newSubstanceCaptureRaises(hImage)   \* the file write raises
          /\ referenceFile' \in
                failedFiles(referenceFile,
                    ReferenceEntry(Val(newSubstanceState).substance,
                        DiffProfile(Val(baseIntensityProfile),
                                    extractSpectrogramProfile(hImage))))
          /\ out' = {Ev("NewReferenceCapture", "error", Val(newSubstanceState).substance)}
          /\ nsTrack' = [nsTrack EXCEPT !.terminal = @ + 1]
          /\ UNCHANGED referenceSpectra
       \/ /\ ~newSubstanceCaptureRaises(hImage)
          /\ referenceFile' =
                writtenFile(referenceFile,
                    ReferenceEntry(Val(newSubstanceState).substance,
                        DiffProfile(Val(baseIntensityProfile),
                                    extractSpectrogramProfile(hImage))))
          /\ referenceSpectra' =
                storeReferenceSpectrum(
                    DiffProfile(Val(baseIntensityProfile),
                                extractSpectrogramProfile(hImage)),
                    Val(newSubstanceState).substance)
          /\ out' = {Ev("NewReferenceCapture", "completed", Val(newSubstanceState).substance)}
          /\ nsTrack' = [nsTrack EXCEPT !.terminal = @ + 1, !.appended = @ + 1]
    /\ newSubstanceState' = SlotAfterCapture
    /\ hpc' = "idle"
    /\ hImage' = ""
    /\ hFor' = ""
    /\ UNCHANGED <<calibrationInProgress, baseIntensityProfile, configBaseProfile,
                   workers, cameraReady, camInbox, anaInbox, budget, calInFlight,
                   storeVars, captureVars, stepVars>>

\* Analysis.handleMessage, type Analyze, resumed after a calibration was seen in
\* progress at line 129
AnalyzeResume ==
    /\ hpc = "analyze"
    /\ analyzeImage(hImage, {})
    /\ hpc' = "idle"
    /\ hImage' = ""
    /\ hFor' = ""
    /\ UNCHANGED <<newSubstanceState, baseIntensityProfile, configBaseProfile,
                   referenceSpectra, cameraReady, camInbox, anaInbox, budget,
                   nsTrack, referenceFile, storeVars, captureVars, stepVars>>

(***************************************************************************)
(* Analysis.handleMessage on one message                                   *)
(***************************************************************************)
HandleCalibrate ==
    /\ calibrate
    /\ UNCHANGED <<newSubstanceState, baseIntensityProfile, configBaseProfile,
                   referenceSpectra, hpc, hImage, cameraReady, nsTrack>>

HandleAddSubstance ==
    /\ out' = {Ev("RequestName", "", "")}
    /\ UNCHANGED <<calibrationInProgress, newSubstanceState, baseIntensityProfile,
                   configBaseProfile, referenceSpectra, hpc, hImage, workers,
                   cameraReady, camInbox, calInFlight, nsTrack>>

HandleNewSubstanceName(name) ==
    /\ newSubstance(name)
    /\ UNCHANGED <<calibrationInProgress, baseIntensityProfile, configBaseProfile,
                   referenceSpectra, hpc, hImage, workers, cameraReady, calInFlight>>

\* a handleMessage that keeps PictureTaken from the new-substance handler
\* while a calibration is in progress
HandlePictureTakenByMode(payload) ==
    /\ IF calibrationInProgress
       THEN UNCHANGED <<newSubstanceState, hpc, hImage, nsTrack>>
       ELSE handleNewSubstanceCapture(payload)
    /\ out' = {}
    /\ UNCHANGED <<calibrationInProgress, baseIntensityProfile, configBaseProfile,
                   referenceSpectra, workers, cameraReady, camInbox, calInFlight>>

\* Analysis.handleMessage, type PictureTaken (102-104): the payload goes to
\* _handleNewSubstanceCapture whatever the mode
HandlePictureTaken(payload) ==
    /\ handleNewSubstanceCapture(payload)
    /\ out' = {}
    /\ UNCHANGED <<calibrationInProgress, baseIntensityProfile, configBaseProfile,
                   referenceSpectra, workers, cameraReady, camInbox, calInFlight>>

HandleAnalyze(img) ==
    /\ handleAnalyze(img)
    /\ UNCHANGED <<newSubstanceState, baseIntensityProfile, configBaseProfile,
                   referenceSpectra, cameraReady, camInbox, nsTrack>>

\* a command of the user interface, the command line or the cuvette sensor
EnvCommand ==
    /\ hpc = "idle"
    /\ budget > 0
    /\ budget' = budget - 1
    /\ anaInbox' = anaInbox
    /\ hFor' = ""
    /\ UNCHANGED <<referenceFile, storeVars, captureVars, stepVars>>
    /\ \/ HandleCalibrate
       \/ HandleAddSubstance
       \/ \E name \in Names : HandleNewSubstanceName(name)
       \/ \E payload \in Payloads : HandlePictureTaken(payload)
       \/ \E img \in Images : HandleAnalyze(img)

\* a message of Camera reaches the message loop
Deliver ==
    /\ hpc = "idle"
    /\ UNCHANGED <<referenceFile, storeVars, captureVars, stepVars>>
    /\ \E m \in CameraMessages :
          /\ anaInbox[m] > 0
          /\ anaInbox' = BagRemove(anaInbox, m)
          /\ budget' = budget
          /\ \/ m[1] = "Analyze" /\ HandleAnalyze(m[2])
             \/ m[1] = "PictureTaken" /\ HandlePictureTaken(m[2])
          /\ hFor' = IF hpc' = "idle" THEN "" ELSE m[3]

(***************************************************************************)
(* Analysis: the threads started by handleMessage                          *)
(***************************************************************************)
Moved(t, u) == BagAdd(BagRemove(workers, t), u)

\* a _persist_base_profile that logs its failure and returns
PersistFailureLogged == {Ev("AnalysisCalibration", "completed", "")}

\* _persist_base_profile raises RuntimeError: the except clause of
\* _performCalibration calls _calibrationFailed
PersistFailed == {Ev("AnalysisCalibration", "error", "")}

\* Analysis._performCalibration, the try block and its except clause
performCalibration(t) ==
    /\ t.kind = "cal"
    /\ t.pc = "try"
    /\ workers[t] > 0
    /\ workers' = Moved(t, [t EXCEPT !.pc = "finally"])
    /\ \/ /\ ~RoiValid(t.image)              \* _calibrationFailed
          /\ calibrationInProgress' = FALSE
          /\ calInFlight' = (calInFlight /\ ~t.cur)
          /\ out' = {Ev("AnalysisCalibration", "error", "")}
          /\ UNCHANGED <<baseIntensityProfile, configBaseProfile>>
       \/ /\ RoiValid(t.image)
          /\ baseIntensityProfile' = Some(extractSpectrogramProfile(t.image))
          /\ configBaseProfile' = Some(extractSpectrogramProfile(t.image))
          /\ out' = {Ev("AnalysisCalibration", "completed", "")}
          /\ UNCHANGED <<calibrationInProgress, calInFlight>>
       \/ /\ RoiValid(t.image)               \* _persist_base_profile raises
          /\ baseIntensityProfile' = Some(extractSpectrogramProfile(t.image))
          /\ configBaseProfile' = configBaseProfile
          /\ calibrationInProgress' = FALSE
          /\ calInFlight' = (calInFlight /\ ~t.cur)
          /\ out' = PersistFailed
    /\ UNCHANGED <<newSubstanceState, referenceSpectra, hpc, hImage, hFor, cameraReady,
                   camInbox, anaInbox, budget, nsTrack, referenceFile, storeVars,
                   captureVars, stepVars>>

\* a _performCalibration without its finally clause
FlagLeftAsItIs == calibrationInProgress

\* the finally clause of _performCalibration: self.calibrationInProgress = False
FlagAfterCalibration == FALSE

\* Analysis._performCalibration, the finally clause
performCalibrationFinally(t) ==
    /\ t.kind = "cal"
    /\ t.pc = "finally"
    /\ workers[t] > 0
    /\ workers' = BagRemove(workers, t)
    /\ calibrationInProgress' = FlagAfterCalibration
    /\ calInFlight' = (calInFlight /\ ~t.cur)
    /\ out' = {}
    /\ UNCHANGED <<newSubstanceState, baseIntensityProfile, configBaseProfile,
                   referenceSpectra, hpc, hImage, hFor, cameraReady, camInbox, anaInbox,
                   budget, nsTrack, referenceFile, storeVars, captureVars, stepVars>>

\* an except clause that only logs
NothingSent == {}

\* the except clause of performAnalysis: the AnalysisError event
AnalysisFailed == {Ev("AnalysisError", "", "")}

\* Analysis.performAnalysis
performAnalysis(t) ==
    /\ t.kind = "ana"
    /\ workers[t] > 0
    /\ workers' = BagRemove(workers, t)
    /\ \/ /\ ~RoiValid(t.image)
          /\ out' = AnalysisFailed
       \/ /\ RoiValid(t.image)
          /\ referenceSpectra = None
          /\ out' = AnalysisFailed
       \/ /\ RoiValid(t.image)
          /\ referenceSpectra # None
          /\ out' = {Ev("AnalysisComplete", "", "")}
       \/ /\ RoiValid(t.image)               \* sendAnalysisResults raises
          /\ referenceSpectra # None
          /\ out' = AnalysisFailed
    /\ UNCHANGED <<calibrationInProgress, newSubstanceState, baseIntensityProfile,
                   configBaseProfile, referenceSpectra, hpc, hImage, hFor, cameraReady,
                   camInbox, anaInbox, budget, calInFlight, nsTrack, referenceFile,
                   storeVars, captureVars, stepVars>>

WorkerStep(t) ==
    \/ performCalibration(t)
    \/ performCalibrationFinally(t)
    \/ performAnalysis(t)

(***************************************************************************)
(* Camera                                                                  *)
(***************************************************************************)
\* Camera.handleMessage for CuvettePresent, Take and Analyze, with the worker of
\* _schedule_picture_capture it starts: takePicture, then send or log
CameraCapture ==
    /\ \E cmd \in CameraCommands :
          /\ camInbox[cmd] > 0
          /\ camInbox' = BagRemove(camInbox, cmd)
          /\ \/ /\ ~cameraReady                \* "Camera not available"
                /\ anaInbox' = anaInbox
             \/ /\ cameraReady                 \* takePicture returned None
                /\ anaInbox' = anaInbox
             \/ /\ cameraReady
                /\ \E img \in CameraImages :
                      anaInbox' = BagAdd(anaInbox, <<ReplyType(cmd), img, cmd>>)
    /\ out' = {}
    /\ UNCHANGED <<analysisVars, hpc, hImage, hFor, workers, cameraReady, budget,
                   calInFlight, nsTrack, referenceFile, storeVars, captureVars, stepVars>>

\* the cuvette sensor or the user asks Camera for an analysis picture
EnvCuvettePresent ==
    /\ budget > 0
    /\ budget' = budget - 1
    /\ camInbox' = BagAdd(camInbox, "CuvettePresent")
    /\ out' = {}
    /\ UNCHANGED <<analysisVars, hpc, hImage, hFor, workers, cameraReady, anaInbox,
                   calInFlight, nsTrack, referenceFile, storeVars, captureVars, stepVars>>

(***************************************************************************)
(* Specifications                                                          *)
(***************************************************************************)
Workers == \E t \in Threads : WorkerStep(t)

Next ==
    \/ EnvCommand
    \/ EnvCuvettePresent
    \/ Deliver
    \/ AnalyzeResume
    \/ newSubstanceCapture
    \/ Workers
    \/ CameraCapture

Spec == Init /\ [][Next]_vars

\* Threads run and messages are handled and delivered; the environment owes
\* nothing.
Fairness ==
    /\ WF_vars(Deliver)
    /\ WF_vars(AnalyzeResume)
    /\ WF_vars(newSubstanceCapture)
    /\ \A t \in Threads : WF_vars(WorkerStep(t))
    /\ WF_vars(CameraCapture)

FairSpec == Spec /\ Fairness

\* a Calibrate or an Analyze command reaches the message loop
EnvAnalysisCommand ==
    /\ hpc = "idle"
    /\ budget > 0
    /\ budget' = budget - 1
    /\ anaInbox' = anaInbox
    /\ hFor' = ""
    /\ UNCHANGED <<referenceFile, storeVars, captureVars, stepVars>>
    /\ \/ HandleCalibrate
       \/ \E img \in Images : HandleAnalyze(img)

\* Analysis with the commands that start an analysis or a calibration
AnalysisNext ==
    \/ EnvAnalysisCommand
    \/ EnvCuvettePresent
    \/ Deliver
    \/ AnalyzeResume
    \/ Workers
    \/ CameraCapture

AnalysisFairSpec == Init /\ [][AnalysisNext]_vars /\ Fairness

(***************************************************************************)
(* The reference store step by step: Analysis.onStart reads the file,      *)
(* _store_reference_spectrum runs on the message loop one statement group  *)
(* at a time, and the analysis threads read the list in between.           *)
(***************************************************************************)
\* what the store leaves alone
storeFrame ==
    UNCHANGED <<calibrationInProgress, newSubstanceState, baseIntensityProfile,
                configBaseProfile, hImage, hFor, cameraReady, camInbox, anaInbox,
                calInFlight, nsTrack, captureVars, stepVars>>

StoreInit ==
    /\ calibrationInProgress = FALSE
    /\ newSubstanceState = None
    /\ baseIntensityProfile = Some(ConfiguredBaseProfile)
    /\ configBaseProfile = baseIntensityProfile
    /\ referenceFile \in StartFiles
    /\ referenceSpectra = None
    /\ hpc = "idle"
    /\ hImage = ""
    /\ hFor = ""
    /\ workers = [t \in Threads |-> 0]
    /\ cameraReady = FALSE
    /\ camInbox = [c \in CameraCommands |-> 0]
    /\ anaInbox = [m \in CameraMessages |-> 0]
    /\ budget = MaxMatches
    /\ out = {}
    /\ calInFlight = FALSE
    /\ nsTrack = FreshTrack
    /\ storePc = "new"
    /\ storeArg = None
    /\ captureLock = 0
    /\ lightReady = FALSE
    /\ capture = [w \in 1..MaxCaptures |-> NoCapture]
    /\ sweepPc = 0
    /\ lightInbox = NoAcks
    /\ lightLog = "TurnOff"
    /\ calib = NoCalib
    /\ gui = NoGui
    /\ sensor = NoSensor
    /\ pipeline = NoPipeline

\* Analysis.onStart
Start ==
    /\ storePc = "new"
    /\ storePc' = "idle"
    /\ referenceSpectra' = onStart(referenceFile)
    /\ out' = {}
    /\ UNCHANGED <<referenceFile, storeArg, hpc, workers, budget>>
    /\ storeFrame

\* an Analyze command with an image is handled by the message loop
StoreAnalyze ==
    /\ storePc # "new"
    /\ hpc = "idle"
    /\ budget > 0
    /\ budget' = budget - 1
    /\ \E img \in CameraImages : HandleAnalyze(img)
    /\ UNCHANGED <<hFor, anaInbox, referenceFile, storeVars, captureVars, stepVars>>

\* _handleNewSubstanceCapture calls _store_reference_spectrum (line 220)
storeCall ==
    /\ storePc = "idle"
    /\ Len(referenceFile.rows) < MaxRows
    /\ \E entry \in StoreEntries : storeArg' = Some(entry)
    /\ storePc' = "write"
    /\ out' = {}
    /\ UNCHANGED <<referenceFile, referenceSpectra, hpc, workers, budget>>
    /\ storeFrame

\* the list after a write that raised, had the entry been listed all the same
MemoryCommittedAnyway ==
    Some(Append(IF referenceSpectra = None THEN <<>> ELSE Val(referenceSpectra),
                ReferenceEntry(Val(storeArg).substance, Val(storeArg).spectrum)))

\* the list after a write that raised: the exception leaves the function
MemoryAfterFailedWrite == referenceSpectra

\* _store_reference_spectrum, lines 583-619: the file is opened and written
storeWrite ==
    /\ storePc = "write"
    /\ \/ /\ referenceFile' = writtenFile(referenceFile, Val(storeArg))
          /\ storePc' = "cache"
          /\ UNCHANGED <<storeArg, referenceSpectra>>
       \/ /\ referenceFile' \in failedFiles(referenceFile, Val(storeArg))
          /\ referenceSpectra' = MemoryAfterFailedWrite
          /\ storePc' = "idle"
          /\ storeArg' = None
    /\ out' = {}
    /\ UNCHANGED <<hpc, workers, budget>>
    /\ storeFrame

\* a list that gets the name of the entry first and its spectrum later
ListedWithoutSpectrum == Some(<<[Val(storeArg) EXCEPT !.spectrum = <<>>]>>)

\* lines 622-623: self.referenceSpectra = [] when it is None
ListedEmpty == Some(<<>>)

\* _store_reference_spectrum, lines 621-623
storeCache ==
    /\ storePc = "cache"
    /\ storePc' = "append"
    /\ referenceSpectra' = IF referenceSpectra = None THEN ListedEmpty ELSE referenceSpectra
    /\ out' = {}
    /\ UNCHANGED <<referenceFile, storeArg, hpc, workers, budget>>
    /\ storeFrame

\* _store_reference_spectrum, lines 624-632: the entry is appended to the list
storeAppend ==
    /\ storePc = "append"
    /\ storePc' = "idle"
    /\ storeArg' = None
    /\ referenceSpectra' =
          Some(Append(Val(referenceSpectra),
                      ReferenceEntry(Val(storeArg).substance, Val(storeArg).spectrum)))
    /\ out' = {}
    /\ UNCHANGED <<referenceFile, hpc, workers, budget>>
    /\ storeFrame

\* the analysis threads: compareWithReferences reads the list
storeMatch == \E t \in Threads : performAnalysis(t)

StoreNext ==
    \/ Start
    \/ StoreAnalyze
    \/ storeCall
    \/ storeWrite
    \/ storeCache
    \/ storeAppend
    \/ storeMatch

StoreSpec == StoreInit /\ [][StoreNext]_vars

(***************************************************************************)
(* Camera step by step: handleMessage on the message loop of Camera, the   *)
(* capture threads of _schedule_picture_capture, and Camera.calibrate,     *)
(* which runs on the message loop.                                         *)
(***************************************************************************)
\* what Camera leaves alone
captureFrame ==
    UNCHANGED <<analysisVars, hpc, hImage, hFor, workers, cameraReady, calInFlight,
                nsTrack, referenceFile, storeVars, stepVars>>

CaptureInit ==
    /\ calibrationInProgress = FALSE
    /\ newSubstanceState = None
    /\ baseIntensityProfile = Some(ConfiguredBaseProfile)
    /\ configBaseProfile = baseIntensityProfile
    /\ referenceFile = EmptyFile
    /\ referenceSpectra = onStart(referenceFile)
    /\ hpc = "idle"
    /\ hImage = ""
    /\ hFor = ""
    /\ workers = [t \in Threads |-> 0]
    /\ cameraReady \in BOOLEAN
    /\ camInbox = [c \in CameraCommands |-> 0]
    /\ anaInbox = [m \in CameraMessages |-> 0]
    /\ budget = MaxCaptures
    /\ out = {}
    /\ calInFlight = FALSE
    /\ nsTrack = FreshTrack
    /\ storePc = "idle"
    /\ storeArg = None
    /\ captureLock = 0
    /\ lightReady = FALSE
    /\ capture = [w \in 1..MaxCaptures |-> NoCapture]
    /\ sweepPc = 0
    /\ lightInbox = NoAcks
    /\ lightLog = "TurnOff"
    /\ calib = NoCalib
    /\ gui = NoGui
    /\ sensor = NoSensor
    /\ pipeline = NoPipeline

\* Analysis, the cuvette sensor or the user sends Camera a capture command
EnvCameraCommand ==
    /\ budget > 0
    /\ budget' = budget - 1
    /\ \E cmd \in CameraCommands : camInbox' = BagAdd(camInbox, cmd)
    /\ out' = {}
    /\ UNCHANGED <<anaInbox, captureVars>>
    /\ captureFrame

\* Camera.handleMessage, lines 103-115: CuvettePresent, Take and Analyze; the
\* message loop is busy while Camera.calibrate runs
cameraHandleMessage ==
    /\ sweepPc = 0
    /\ \E cmd \in CameraCommands :
          /\ camInbox[cmd] > 0
          /\ camInbox' = BagRemove(camInbox, cmd)
          /\ \/ /\ ~cameraReady
                /\ capture' = capture
             \/ /\ cameraReady
                /\ \E w \in 1..MaxCaptures :
                      /\ capture[w].pc = "none"
                      /\ \A v \in 1..(w - 1) : capture[v].pc # "none"
                      /\ capture' = [capture EXCEPT ![w] =
                            [pc |-> "lock", reply |-> ReplyType(cmd), frame |-> FALSE]]
    /\ out' = {}
    /\ UNCHANGED <<anaInbox, budget, captureLock, lightReady, sweepPc, lightInbox,
                   lightLog>>
    /\ captureFrame

\* Camera.handleMessage, lines 96-101: TurnedOn of LightSource sets the event,
\* TurnedOff clears it
handleLightSource ==
    /\ sweepPc = 0
    /\ \E m \in LightMessages :
          /\ lightInbox[m] > 0
          /\ lightInbox' = BagRemove(lightInbox, m)
          /\ lightReady' = (m[1] = "TurnedOn")
    /\ out' = {}
    /\ UNCHANGED <<camInbox, anaInbox, budget, captureLock, capture, sweepPc, lightLog>>
    /\ captureFrame

\* one capture thread moves on
Stepped(w, pc) == [capture EXCEPT ![w].pc = pc]

\* Camera.takePicture, line 147: with self._capture_lock
takePictureLock(w) ==
    /\ capture[w].pc = "lock"
    /\ captureLock = 0
    /\ captureLock' = w
    /\ capture' = Stepped(w, "turnOn")
    /\ out' = {}
    /\ UNCHANGED <<camInbox, anaInbox, budget, lightReady, sweepPc, lightInbox, lightLog>>
    /\ captureFrame

\* Camera.takePicture, lines 148-153: the event is cleared and TurnOn is sent;
\* LightSource acknowledges it or does not
takePictureTurnOn(w) ==
    /\ capture[w].pc = "turnOn"
    /\ lightReady' = FALSE
    /\ lightLog' = "TurnOn"
    /\ lightInbox' \in Acked(Earlier(lightInbox), "TurnedOn")
    /\ capture' = Stepped(w, "wait")
    /\ out' = {}
    /\ UNCHANGED <<camInbox, anaInbox, budget, captureLock, sweepPc>>
    /\ captureFrame

\* a wait without a timeout
lightWaitEndsOnAck == lightReady

\* self._light_ready_event.wait(self.light_on_timeout) returns: the event is
\* set, or the timeout has passed
lightWaitEnds == lightReady \/ TRUE

\* Camera.takePicture, lines 155-162: the wait, the settle times
takePictureWait(w) ==
    /\ capture[w].pc = "wait"
    /\ lightWaitEnds
    /\ capture' = Stepped(w, "capture")
    /\ out' = {}
    /\ UNCHANGED <<camInbox, anaInbox, budget, captureLock, lightReady, sweepPc,
                   lightInbox, lightLog>>
    /\ captureFrame

\* Camera.takePicture, lines 164-168: capture_array returns a frame or raises
takePictureCapture(w) ==
    /\ capture[w].pc = "capture"
    /\ \E frame \in BOOLEAN :
          capture' = [capture EXCEPT ![w].pc = "finally", ![w].frame = frame]
    /\ out' = {}
    /\ UNCHANGED <<camInbox, anaInbox, budget, captureLock, lightReady, sweepPc,
                   lightInbox, lightLog>>
    /\ captureFrame

\* a finally clause that sends nothing
LightLeftOn == lightLog

\* the finally clause of Camera.takePicture sends TurnOff
LightAfterCapture == "TurnOff"

\* Camera.takePicture, lines 169-172: the finally clause
takePictureFinally(w) ==
    /\ capture[w].pc = "finally"
    /\ lightLog' = LightAfterCapture
    /\ lightInbox' \in Acked(lightInbox, "TurnedOff")
    /\ lightReady' = FALSE
    /\ capture' = Stepped(w, "release")
    /\ out' = {}
    /\ UNCHANGED <<camInbox, anaInbox, budget, captureLock, sweepPc>>
    /\ captureFrame

\* Camera.takePicture: the with block of line 147 is left
takePictureRelease(w) ==
    /\ capture[w].pc = "release"
    /\ captureLock' = 0
    /\ capture' = Stepped(w, "encode")
    /\ out' = {}
    /\ UNCHANGED <<camInbox, anaInbox, budget, lightReady, sweepPc, lightInbox, lightLog>>
    /\ captureFrame

\* Camera.takePicture, lines 174-190, and the worker of
\* _schedule_picture_capture: the frame is encoded and sent, or the failure is
\* logged; out holds what Camera sends in the step
captureReply(w) ==
    /\ capture[w].pc = "encode"
    /\ \/ /\ ~capture[w].frame
          /\ out' = {}
       \/ /\ capture[w].frame               \* cv2.imencode fails
          /\ out' = {}
       \/ /\ capture[w].frame
          /\ \E img \in CameraImages : out' = {Ev(capture[w].reply, "sent", img)}
    /\ capture' = [capture EXCEPT ![w] = NoCapture]
    /\ UNCHANGED <<camInbox, anaInbox, budget, captureLock, lightReady, sweepPc,
                   lightInbox, lightLog>>
    /\ captureFrame

\* Camera.handleMessage, lines 116-118, and Camera.calibrate up to its sweep:
\* a Calibrate command is handled
cameraCalibrate ==
    /\ sweepPc = 0
    /\ budget > 0
    /\ budget' = budget - 1
    /\ sweepPc' = IF cameraReady THEN 1 ELSE 0
    /\ out' = IF cameraReady THEN {Ev("CalibrationStarted", "", "")}
                             ELSE {Ev("CameraCalibrated", "error", "")}
    /\ UNCHANGED <<camInbox, anaInbox, captureLock, lightReady, capture, lightInbox,
                   lightLog>>
    /\ captureFrame

\* Camera.calibrate, lines 298-311: the sweep captures a frame
calibrateSweep ==
    /\ sweepPc > 0
    /\ sweepPc <= MaxSweep
    /\ sweepPc' = sweepPc + 1
    /\ out' = {}
    /\ UNCHANGED <<camInbox, anaInbox, budget, captureLock, lightReady, capture,
                   lightInbox, lightLog>>
    /\ captureFrame

\* Camera.calibrate, lines 337-389: the sweep is over or has raised
calibrateEnd ==
    /\ sweepPc > 0
    /\ sweepPc' = 0
    /\ \E status \in {"success", "error"} : out' = {Ev("CameraCalibrated", status, "")}
    /\ UNCHANGED <<camInbox, anaInbox, budget, captureLock, lightReady, capture,
                   lightInbox, lightLog>>
    /\ captureFrame

\* the steps of one capture thread
captureStep(w) ==
    \/ takePictureLock(w)
    \/ takePictureTurnOn(w)
    \/ takePictureWait(w)
    \/ takePictureCapture(w)
    \/ takePictureFinally(w)
    \/ takePictureRelease(w)
    \/ captureReply(w)

CaptureNext ==
    \/ EnvCameraCommand
    \/ cameraHandleMessage
    \/ handleLightSource
    \/ cameraCalibrate
    \/ calibrateSweep
    \/ calibrateEnd
    \/ \E w \in 1..MaxCaptures : captureStep(w)

CaptureSpec == CaptureInit /\ [][CaptureNext]_vars

\* The capture threads run, the message loop of Camera handles what is sent to
\* it, and the sweep goes on; nobody owes Camera a command or an
\* acknowledgment.
CaptureFairness ==
    /\ WF_vars(cameraHandleMessage)
    /\ WF_vars(handleLightSource)
    /\ WF_vars(calibrateSweep \/ calibrateEnd)
    /\ \A w \in 1..MaxCaptures : WF_vars(captureStep(w))

CaptureFairSpec == CaptureSpec /\ CaptureFairness

(***************************************************************************)
(* Properties                                                              *)
(***************************************************************************)
Started == Ev("AnalysisCalibration", "started", "")

\* the NewReferenceCapture events of a set of events that end an acquisition
CaptureEnds(events) ==
    {e \in events : e[1] = "NewReferenceCapture" /\ e[2] \in {"completed", "error"}}

\* C1: while an accepted calibration has neither completed nor failed, a
\* Calibrate command is rejected: no camera request, no started event and no
\* change of state; once the calibration has ended, a Calibrate command is
\* accepted.
C1_CalibrateSingleFlight ==
    [][HandleCalibrate =>
          IF calInFlight
          THEN /\ out' = {}
               /\ UNCHANGED <<analysisVars, camInbox, workers>>
          ELSE Started \in out']_vars

\* C2: a calibration in progress never coexists with a new-substance
\* acquisition that waits for its image or processes it.
C2_OneAcquisitionMode ==
    ~(calibrationInProgress /\ newSubstanceState # None)

\* C3: while a new-substance acquisition is outstanding, a NewSubstanceName
\* request is rejected and not queued: the slot keeps the substance and the
\* status of the first request, no capture is requested, and a slot only gets
\* a substance by a request that is accepted for it.
C3_NewSubstanceSingleFlight ==
    [][/\ \A name \in Names :
             (HandleNewSubstanceName(name) /\ newSubstanceState # None) =>
                /\ newSubstanceState' = newSubstanceState
                /\ camInbox' = camInbox
                /\ out' = {Ev("NewReferenceCapture", "error", Strip(name))}
       /\ newSubstanceState # None =>
             \/ newSubstanceState' = None
             \/ Val(newSubstanceState').substance = Val(newSubstanceState).substance
       /\ (newSubstanceState = None /\ newSubstanceState' # None) =>
             /\ out' = {Ev("NewReferenceCapture", "requested",
                           Val(newSubstanceState').substance)}
             /\ camInbox' = BagAdd(camInbox, "Take")]_vars

\* C3 witness: a request for KCl was refused while the slot holds NaCl
C3_Witness ==
    /\ newSubstanceState # None
    /\ Val(newSubstanceState).substance = "NaCl"
    /\ out = {Ev("NewReferenceCapture", "error", "KCl")}

\* C4: every accepted Calibrate command is eventually followed by a completed
\* or error event and the return to Idle, whatever the camera does.
C4_CalibrationEnds ==
    calInFlight ~> (~calInFlight /\ ~calibrationInProgress)

\* C5: every accepted new-substance request is eventually followed by its
\* completed or error event and the slot is freed, whatever the camera sends.
C5_NewSubstanceEnds ==
    (newSubstanceState # None) ~> (newSubstanceState = None)

\* C6: once an image has moved the acquisition to processing, no event ends it
\* before the processing does, and the processing ends with exactly one
\* completed or error event for the substance of the slot, completed exactly
\* when the spectrum was appended under that substance, and with the slot
\* empty, so that a request with a name and a baseline outside a calibration
\* is accepted again.
C6_OneTerminalEvent ==
    [][/\ hpc = "newSubstanceCapture" =>
             IF hpc' = "newSubstanceCapture"
             THEN /\ CaptureEnds(out') = {}
                  /\ newSubstanceState' = newSubstanceState
             ELSE /\ newSubstanceState' = None
                  /\ nsTrack'.terminal = 1
                  /\ \E status \in {"completed", "error"} :
                        /\ out' = {Ev("NewReferenceCapture", status,
                                      Val(newSubstanceState).substance)}
                        /\ (status = "completed") <=>
                              /\ referenceSpectra' # referenceSpectra
                              /\ Val(referenceSpectra')[Len(Val(referenceSpectra'))].substance
                                    = Val(newSubstanceState).substance
       /\ \A name \in Names :
             (/\ HandleNewSubstanceName(name)
              /\ newSubstanceState = None
              /\ Strip(name) # ""
              /\ baseIntensityProfile # None
              /\ ~calibrationInProgress) =>
                Ev("NewReferenceCapture", "requested", Strip(name)) \in out']_vars

\* C6 witness: the processing has ended with the completed event and the slot
\* is empty
C6_Witness ==
    /\ out = {Ev("NewReferenceCapture", "completed", "NaCl")}
    /\ newSubstanceState = None
    /\ nsTrack.terminal = 1

\* C7: for one accepted request at most one reference spectrum is appended,
\* however many PictureTaken messages arrive.
C7_OneAppendPerRequest ==
    nsTrack.appended <= 1

\* C7 witness: a second PictureTaken has been handled for a request whose
\* spectrum was appended
C7_Witness ==
    /\ nsTrack.pictures >= 2
    /\ nsTrack.appended = 1

\* the number of threads of a bag that are in a set
RECURSIVE Total(_, _)
Total(w, S) ==
    IF S = {} THEN 0
    ELSE LET t == CHOOSE x \in S : TRUE IN w[t] + Total(w, S \ {t})

CalTry(w)     == Total(w, {t \in Threads : t.kind = "cal" /\ t.pc = "try"})
CalFinally(w) == Total(w, {t \in Threads : t.kind = "cal" /\ t.pc = "finally"})
AnaCount(w)   == Total(w, {t \in Threads : t.kind = "ana"})

\* C8: the processing of a calibration image ends with the flag cleared; it
\* sends completed only with the baseline stored and persisted, and otherwise
\* an error event, with the flag cleared at once, and no completed event.
C8_CalibrationCleanup ==
    [][/\ CalFinally(workers') < CalFinally(workers) => ~calibrationInProgress'
       /\ CalTry(workers') < CalTry(workers) =>
             \/ /\ out' = {Ev("AnalysisCalibration", "completed", "")}
                /\ baseIntensityProfile' # None
                /\ configBaseProfile' = baseIntensityProfile'
             \/ /\ out' = {Ev("AnalysisCalibration", "error", "")}
                /\ ~calibrationInProgress'
       /\ Ev("AnalysisCalibration", "completed", "") \in out' =>
             CalTry(workers') < CalTry(workers)]_vars

\* C8 witness: a calibration thread has sent the error event and is about to
\* run its finally clause
C8_Witness ==
    /\ out = {Ev("AnalysisCalibration", "error", "")}
    /\ CalFinally(workers) > 0
    /\ ~calibrationInProgress

AnalysisEnds(events) ==
    events \cap {Ev("AnalysisComplete", "", ""), Ev("AnalysisError", "", "")}

AnaThreads == {t \in Threads : t.kind = "ana"}

\* C9: an Analyze command with a decodable image, handled while no calibration
\* is in progress and reference data is loaded, starts one analysis thread and
\* sends no result itself; an analysis thread ends with exactly one event:
\* AnalysisComplete, which takes an image whose profile can be extracted and
\* loaded reference data, or else AnalysisError; nothing else sends
\* AnalysisComplete; and the analysis threads that run eventually have ended.
C9_OneAnalysisResult ==
    /\ [][/\ \A t \in AnaThreads :
                workers'[t] < workers[t] =>
                   \/ /\ out' = {Ev("AnalysisComplete", "", "")}
                      /\ RoiValid(t.image)
                      /\ referenceSpectra # None
                   \/ out' = {Ev("AnalysisError", "", "")}
          /\ \A t \in AnaThreads :
                (workers'[t] < workers[t] /\ ~RoiValid(t.image)) =>
                   out' = {Ev("AnalysisError", "", "")}
          /\ \A img \in {i \in Images : Decodable(i)} :
                (/\ HandleAnalyze(img)
                 /\ ~calibrationInProgress
                 /\ referenceSpectra # None) =>
                   /\ AnaCount(workers') = AnaCount(workers) + 1
                   /\ AnalysisEnds(out') = {}
          /\ Ev("AnalysisComplete", "", "") \in out' =>
                AnaCount(workers') = AnaCount(workers) - 1]_vars
    /\ (AnaCount(workers) > 0) ~> (AnaCount(workers) = 0)

\* C9 witness: an analysis thread has sent AnalysisComplete
C9_Witness ==
    /\ out = {Ev("AnalysisComplete", "", "")}
    /\ referenceSpectra # None

\* the steps that end the handling of an Analyze command by the message loop
AnalyzeHandled ==
    \/ \E img \in Images : HandleAnalyze(img) /\ hpc' = "idle"
    \/ AnalyzeResume

\* C10 as claimed: an Analyze command handled while no reference data is loaded
\* sends AnalysisError, starts no thread and changes neither the baseline, the
\* mode nor the reference data.
C10_AsClaimed ==
    [][(AnalyzeHandled /\ referenceSpectra = None) =>
          /\ Ev("AnalysisError", "", "") \in out'
          /\ workers' = workers
          /\ UNCHANGED analysisVars]_vars

\* C10: an Analyze command received while no calibration is in progress and no
\* reference data is loaded sends AnalysisRequested and AnalysisError, starts
\* no thread, changes neither the baseline, the mode nor the reference data,
\* and no AnalysisComplete follows from it.
C10_NoReferenceShortCircuit ==
    [][/\ \A img \in Images :
             (HandleAnalyze(img) /\ referenceSpectra = None /\ ~calibrationInProgress) =>
             /\ out' = {Ev("AnalysisRequested", "received", ""),
                        Ev("AnalysisError", "", "")}
             /\ workers' = workers
             /\ hpc' = "idle"
             /\ UNCHANGED analysisVars
       /\ (referenceSpectra = None /\ AnaCount(workers) = 0) =>
             Ev("AnalysisComplete", "", "") \notin out']_vars

\* C10 witness: the short circuit has been taken
C10_Witness ==
    /\ referenceSpectra = None
    /\ ~calibrationInProgress
    /\ out = {Ev("AnalysisRequested", "received", ""), Ev("AnalysisError", "", "")}

\* the files the load is to take for an empty database
SoftFiles == {MissingFile, EmptyFile, BinaryFile}

\* C11: after Analysis has started on a missing, an empty or an undecodable
\* record file, the database is loaded and empty, and an Analyze command with
\* a decodable image starts an analysis thread and sends no AnalysisError.
C11_LoadFailsSoft ==
    [][(StoreAnalyze /\ referenceFile \in SoftFiles) =>
          /\ referenceSpectra = Some(<<>>)
          /\ AnaCount(workers') = AnaCount(workers) + 1
          /\ Ev("AnalysisError", "", "") \notin out']_vars

\* how often x occurs in a sequence
Occurrences(seq, x) == Cardinality({i \in 1..Len(seq) : seq[i] = x})

\* the entries of the list, none when there is no list
Listed == IF referenceSpectra = None THEN <<>> ELSE Val(referenceSpectra)

\* C14: the list changes only after the write of the file has succeeded: a
\* write that raises leaves the list as it was, a new entry is listed only
\* once its row is in the file, and every listed entry has as many complete
\* rows in the file as it has places in the list.
C14_WriteThenCommit ==
    [][/\ (storeWrite /\ storePc' = "idle") => referenceSpectra' = referenceSpectra
       /\ (storePc # "new" /\ referenceSpectra' # referenceSpectra) =>
             /\ storePc \in {"cache", "append"}
             /\ Occurrences(referenceFile.rows, RecordRow(Val(storeArg))) > 0
       /\ \A i \in 1..Len(Listed') :
             Occurrences(Listed', Listed'[i])
                <= Occurrences(referenceFile'.rows, RecordRow(Listed'[i]))]_vars

\* C14 witness: a write has failed and left a torn row; the list has its one
\* entry and none for the torn row
C14_Witness ==
    /\ storePc = "idle"
    /\ Len(Listed) = 1
    /\ \E i \in 1..Len(referenceFile.rows) : referenceFile.rows[i].kind = "tornQuoted"

\* an entry with its name and its spectrum
Complete(entry) == entry.substance # "" /\ entry.spectrum # <<>>

\* C15: whenever an analysis thread can read the list, the list is what it was
\* before the append that is under way, or that with the complete new entry at
\* its end: every entry is complete, and the list changes only by the
\* statements of the append, to the empty list or by the one complete entry.
C15_MatchSeesWholeRecords ==
    [][/\ \A i \in 1..Len(Listed') : Complete(Listed'[i])
       /\ (storePc # "new" /\ referenceSpectra' # referenceSpectra) =>
             \/ storePc = "cache" /\ Listed' = Listed
             \/ /\ storePc = "append"
                /\ Listed' = Append(Listed, [substance |-> Val(storeArg).substance,
                                             spectrum  |-> AsFloat32(Val(storeArg).spectrum)])]_vars

\* C15 witness: an analysis thread is running between the two statements that
\* create the list and append the entry
C15_Witness ==
    /\ storePc = "append"
    /\ referenceSpectra = Some(<<>>)
    /\ AnaCount(workers) > 0

\* a file that was missing, empty or written by the store alone, by writes
\* that did not fail
WellFormed(file) ==
    \/ file.rows = <<>>
    \/ /\ file.rows[1] = HeaderRow
       /\ \A i \in 2..Len(file.rows) : file.rows[i].kind = "record"

\* C16: a record file that was missing, empty or populated has, after any
\* appends, the header as its first row and no other header, and a step never
\* changes or removes a row that was written in full.
C16_OneHeaderAppendOnly ==
    [][/\ (referenceFile'.rows # <<>> /\ WellFormed(referenceFile)) =>
             /\ referenceFile'.rows[1] = HeaderRow
             /\ \A i \in 2..Len(referenceFile'.rows) :
                   referenceFile'.rows[i].kind # "header"
       /\ Len(referenceFile'.rows) >= Len(referenceFile.rows)
       /\ \A i \in 1..Len(referenceFile.rows) :
             referenceFile.rows[i].kind \in {"header", "record"} =>
                referenceFile'.rows[i] = referenceFile.rows[i]]_vars

\* C16 witness: two records were appended to a file without a line end after
\* its last record
C16_Witness ==
    /\ Len(referenceFile.rows) = 4
    /\ referenceFile.rows[2] = RecordRow(StoreArg("KCl", <<2, -2>>))
    /\ referenceFile.rows[3].kind = "record"
    /\ referenceFile.rows[4].kind = "record"
    /\ storePc = "idle"

\* C17 as claimed: once an entry is appended, reading the record file again
\* yields, as its last entry, the name and the spectrum the store was given.
C17_AsClaimed ==
    [][(storeAppend /\ WellFormed(referenceFile')) =>
          LET reloaded == Val(onStart(referenceFile'))
          IN  reloaded[Len(reloaded)] = Val(storeArg)]_vars

\* C17: between appends, reading the record file again as onStart does yields
\* the listed entries, in their order, with their names and with the spectra
\* the list holds, which are the spectra the store was given as float32, for
\* a file that was missing, empty or written by the store.
C17_RoundTrip ==
    (storePc = "idle" /\ WellFormed(referenceFile)) =>
        LET reloaded == onStart(referenceFile)
        IN  (IF reloaded = None THEN <<>> ELSE Val(reloaded)) = Listed

\* C17 witness: two spectra, one with a negative value and both with a value
\* float32 rounds, were appended to a file that was missing and are listed in
\* their order
C17_Witness ==
    /\ storePc = "idle"
    /\ Len(referenceFile.rows) = 3
    /\ referenceFile.rows[1] = HeaderRow
    /\ referenceSpectra =
          Some(<<[substance |-> "NaCl", spectrum |-> <<-2, 4>>],
                 [substance |-> "KCl", spectrum |-> <<0, 8>>]>>)

\* the steps of the message loop that decide on the image of an Analyze
\* command: the command's first step when no calibration is in progress and
\* reference data is loaded, the resumed step otherwise
ImageChecked(img) ==
    \/ HandleAnalyze(img) /\ ~calibrationInProgress /\ referenceSpectra # None
    \/ AnalyzeResume /\ hImage = img

\* C12: an Analyze command whose image is missing or cannot be decoded sends
\* AnalysisError and starts no thread; when a calibration is in progress at
\* that moment it also sends the calibration error and clears the flag.
C12_BadImageRejected ==
    [][\A img \in {i \in Images : ~Decodable(i)} :
          ImageChecked(img) =>
             /\ Ev("AnalysisError", "", "") \in out'
             /\ workers' = workers
             /\ calibrationInProgress =>
                   /\ Ev("AnalysisCalibration", "error", "") \in out'
                   /\ ~calibrationInProgress']_vars

\* C13: a NewSubstanceName command with an empty or blank name, or without a
\* baseline, sends the error event for the stripped name, requests no capture
\* and leaves the slot as it is; the slot is only taken with a baseline and
\* for a name that is not empty.
C13_NameAndBaselineRequired ==
    [][/\ \A name \in Names :
             (HandleNewSubstanceName(name)
                 /\ (Strip(name) = "" \/ baseIntensityProfile = None)) =>
                /\ out' = {Ev("NewReferenceCapture", "error", Strip(name))}
                /\ camInbox' = camInbox
                /\ newSubstanceState' = newSubstanceState
       /\ (newSubstanceState = None /\ newSubstanceState' # None) =>
             /\ baseIntensityProfile # None
             /\ Val(newSubstanceState').substance # ""]_vars

\* C13 witness: a request for NaCl was refused for want of a baseline
C13_Witness ==
    /\ baseIntensityProfile = None
    /\ newSubstanceState = None
    /\ out = {Ev("NewReferenceCapture", "error", "NaCl")}

\* C18: at most one capture sequence uses the camera and the light at a time:
\* the sweep of Camera.calibrate captures a frame only while no capture thread
\* holds the capture lock, and a capture thread captures its frame only while
\* it holds the lock and no sweep runs.
C18_CaptureExclusive ==
    [][/\ calibrateSweep => captureLock = 0
       /\ \A w \in 1..MaxCaptures :
             takePictureCapture(w) => (captureLock = w /\ sweepPc = 0)]_vars

\* the sweep of Camera.calibrate is about to capture a frame while a capture
\* thread holds the lock and waits for the light
C18_Witness ==
    /\ sweepPc = 1
    /\ \E w \in 1..MaxCaptures : captureLock = w /\ capture[w].pc = "wait"

\* C19: a capture sends TurnOn only after the last request was TurnOff; its
\* finally clause sends TurnOff and clears the readiness event while it still
\* holds the capture lock, whether or not it has a frame; so whenever the lock
\* is free the last request is TurnOff, and TurnOn and TurnOff alternate.
C19_LightReleased ==
    /\ [](captureLock = 0 => lightLog = "TurnOff")
    /\ [][\A w \in 1..MaxCaptures :
             /\ takePictureTurnOn(w) =>
                   (captureLock = w /\ lightLog = "TurnOff" /\ lightLog' = "TurnOn")
             /\ takePictureFinally(w) =>
                   /\ captureLock' = w
                   /\ lightLog = "TurnOn"
                   /\ lightLog' = "TurnOff"
                   /\ ~lightReady'
             /\ takePictureRelease(w) => lightLog = "TurnOff"]_vars

\* a capture whose capture_array raised is about to release the lock: TurnOff
\* has been sent
C19_Witness ==
    \E w \in 1..MaxCaptures :
        /\ capture[w].pc = "release"
        /\ ~capture[w].frame
        /\ captureLock = w
        /\ lightLog = "TurnOff"

\* C20: whether or not LightSource ever answers TurnOn, the capture threads,
\* the queued ones too, all come to their end, and then the capture lock is
\* free; a thread leaves its wait for the light without the event being set.
C20_CaptureEndsWithoutAck ==
    /\ []((\A w \in 1..MaxCaptures : capture[w].pc = "none") => captureLock = 0)
    /\ (\E w \in 1..MaxCaptures : capture[w].pc # "none")
          ~> (\A w \in 1..MaxCaptures : capture[w].pc = "none")

\* no answer of LightSource has arrived or is on its way, the wait of a capture
\* is over and it is about to capture its frame, and another capture waits for
\* the lock
C20_Witness ==
    \E w, v \in 1..MaxCaptures :
        /\ capture[w].pc = "capture"
        /\ captureLock = w
        /\ ~lightReady
        /\ lightInbox = NoAcks
        /\ capture[v].pc = "lock"

\* C22: the message loop of a component is never kept from its next message
\* by a capture or a sweep: whenever an answer of LightSource is on its way to
\* Camera, Camera.handleMessage can handle it.
C22_LoopNeverBlocked ==
    [](lightInbox # NoAcks => ENABLED handleLightSource)

\* the sweep of Camera.calibrate runs on the message loop of Camera while
\* TurnedOn waits to be handled and a capture thread waits for the event
C22_Witness ==
    /\ sweepPc > 0
    /\ lightInbox[<<"TurnedOn", TRUE>>] > 0
    /\ \E w \in 1..MaxCaptures : capture[w].pc = "wait"

\* C23: a PictureTaken message with an image goes to the new-substance
\* handler whatever the mode: it starts no calibration thread and leaves the
\* calibration flag alone, and when the slot waits for an image the
\* processing of the new-substance image starts with that image.
C23_PictureToNewSubstance ==
    [][\A img \in CameraImages :
          HandlePictureTaken(img) =>
             /\ workers' = workers
             /\ calibrationInProgress' = calibrationInProgress
             /\ (/\ newSubstanceState # None
                 /\ Val(newSubstanceState).status = "waiting_image") =>
                   (hpc' = "newSubstanceCapture" /\ hImage' = img)]_vars

\* C23 as claimed: a PictureTaken message with an image that is handled while
\* a calibration is in progress starts the processing of a calibration image,
\* and one that is handled while the slot waits for an image starts the
\* processing of the new-substance image.
C23_PictureRoutedByMode ==
    [][\A img \in CameraImages :
          /\ (HandlePictureTaken(img) /\ calibrationInProgress) =>
                CalTry(workers') = CalTry(workers) + 1
          /\ (/\ HandlePictureTaken(img)
              /\ newSubstanceState # None
              /\ Val(newSubstanceState).status = "waiting_image") =>
                (hpc' = "newSubstanceCapture" /\ hImage' = img)]_vars

\* a PictureTaken message was handled while a calibration was in progress
\* and the slot waited: the new-substance image is being processed, no
\* calibration thread runs and the calibration is still in progress
C23_Witness ==
    /\ calibrationInProgress
    /\ hpc = "newSubstanceCapture"
    /\ hImage \in CameraImages
    /\ \A t \in Threads : workers[t] = 0

\* C24: the try block of _performCalibration sends completed only when the
\* profile of its image is the baseline in memory and the one in the
\* configuration file; when the file does not get that profile it sends the
\* error event and no completed event.
C24_CompletedAfterPersist ==
    [][\A t \in Threads :
          (t.kind = "cal" /\ performCalibration(t)) =>
             LET profile == Some(extractSpectrogramProfile(t.image))
             IN  /\ Ev("AnalysisCalibration", "completed", "") \in out' =>
                       /\ RoiValid(t.image)
                       /\ baseIntensityProfile' = profile
                       /\ configBaseProfile' = profile
                 /\ configBaseProfile' # profile =>
                       out' = {Ev("AnalysisCalibration", "error", "")}]_vars

\* C24 witness: the baseline was replaced in memory, the configuration file
\* kept the old one, and the error event was sent
C24_Witness ==
    /\ out = {Ev("AnalysisCalibration", "error", "")}
    /\ baseIntensityProfile = Some(extractSpectrogramProfile("imgA"))
    /\ configBaseProfile # baseIntensityProfile

(***************************************************************************)
(* Camera.calibrate followed step by step: the sweep over the              *)
(* combinations, the best settings it keeps, the controls of the camera,   *)
(* the gain kept in memory and the camera section of config.json.  Each    *)
(* list of the sweep but that of the gains is cut to its first two values; *)
(* the score of a combination is whatever the frame gives.                 *)
(***************************************************************************)
MaxGain == 3
MaxScore == 2

\* gain_list, in the order of the sweep
gain_list == [i \in 1..MaxGain |-> i]

\* the first two values of exposure_list, of rgb_colors_list and of
\* led_brightness_list
exposure_list == <<10000, 20000>>
rgb_colors_list == <<<<15, 15, 15>>, <<15, 15, 25>>>>
led_brightness_list == <<25, 35>>

\* the four for statements, lines 300-303: the loop variables after the body
\* of the innermost one has run once more; the sweep is over when the gain
\* has left its list
nextIteration(loop) ==
    IF loop.brightness < Len(led_brightness_list)
    THEN [loop EXCEPT !.brightness = @ + 1]
    ELSE IF loop.rgb < Len(rgb_colors_list)
    THEN [loop EXCEPT !.brightness = 1, !.rgb = @ + 1]
    ELSE IF loop.exposure < Len(exposure_list)
    THEN [loop EXCEPT !.brightness = 1, !.rgb = 1, !.exposure = @ + 1]
    ELSE [loop EXCEPT !.brightness = 1, !.rgb = 1, !.exposure = 1, !.gain = @ + 1]

\* the sweep has left its loops
Exhausted(loop) == loop.gain > Len(gain_list)

\* a score that replaces the best one whenever it is not lower
notLower(total_score, best_score) == total_score >= best_score

\* if total_score > best_settings["score"], line 337
higher(total_score, best_score) == total_score > best_score

\* total_score of a frame: a sum of three non-negative means
Scores == 0..MaxScore

\* config.json as open('config.json', 'r+') and json.load find it: readable
\* with a camera section, missing or not JSON, or JSON without that section
ConfigKinds == {"ok", "unreadable", "noCameraSection"}

\* the truth value Python gives best_settings["camera"]["gain"]
Truthy(gain) == gain # None /\ Val(gain) # 0

\* what the sweep leaves alone
sweepFrame ==
    UNCHANGED <<analysisVars, hpc, hImage, hFor, workers, cameraReady, camInbox, anaInbox,
                budget, calInFlight, nsTrack, referenceFile, storeVars, captureVars,
                pipeline, gui, sensor>>

SweepInit ==
    /\ calibrationInProgress = FALSE
    /\ newSubstanceState = None
    /\ baseIntensityProfile = Some(ConfiguredBaseProfile)
    /\ configBaseProfile = baseIntensityProfile
    /\ referenceFile = EmptyFile
    /\ referenceSpectra = onStart(referenceFile)
    /\ hpc = "idle"
    /\ hImage = ""
    /\ hFor = ""
    /\ workers = [t \in Threads |-> 0]
    /\ cameraReady \in BOOLEAN
    /\ camInbox = [c \in CameraCommands |-> 0]
    /\ anaInbox = [m \in CameraMessages |-> 0]
    /\ budget = 0
    /\ out = {}
    /\ calInFlight = FALSE
    /\ nsTrack = FreshTrack
    /\ storePc = "idle"
    /\ storeArg = None
    /\ captureLock = 0
    /\ lightReady = FALSE
    /\ capture = [w \in 1..MaxCaptures |-> NoCapture]
    /\ sweepPc = 0
    /\ lightInbox = NoAcks
    /\ lightLog = "TurnOff"
    /\ \E kind \in ConfigKinds, gain \in 1..MaxGain :
          calib = [NoCalib EXCEPT !.controls = gain, !.gain = gain,
                                  !.config = [kind |-> kind, gain |-> gain]]
    /\ pipeline = NoPipeline
    /\ gui = NoGui
    /\ sensor = NoSensor

\* Camera.calibrate, lines 264-296: without a camera the error event is sent,
\* with one the sweep starts from best_settings with no gain and score 0
sweepStart ==
    /\ calib.pc = "idle"
    /\ IF cameraReady
       THEN /\ calib' = [calib EXCEPT !.pc = "sweep", !.tried = 0,
                                      !.best_settings = NoBest]
            /\ out' = {Ev("CalibrationStarted", "", "")}
       ELSE /\ calib' = [calib EXCEPT !.pc = "done"]
            /\ out' = {Ev("CameraCalibrated", "error", "")}
    /\ sweepFrame

\* one combination of the sweep, lines 304-344: its controls are applied,
\* the frame is captured and scored, and the best settings are updated; or
\* capture_array raises and the except clause of calibrate sends the error
sweepCombination ==
    /\ calib.pc = "sweep"
    /\ ~Exhausted(calib.loop)
    /\ LET gain == gain_list[calib.loop.gain]
           exposure == exposure_list[calib.loop.exposure]
           rgb == rgb_colors_list[calib.loop.rgb]
           brightness == led_brightness_list[calib.loop.brightness]
       IN  \/ \E total_score \in Scores :
                /\ calib' = [calib EXCEPT
                       !.tried = @ + 1,
                       !.loop = nextIteration(@),
                       !.controls = gain,
                       !.tested = Some([gain |-> gain, exposure |-> exposure,
                                        rgb |-> rgb, brightness |-> brightness,
                                        score |-> total_score]),
                       !.best_settings =
                           IF higher(total_score, @.score)
                           THEN [gain |-> Some(gain), exposure |-> Some(exposure),
                                 rgb |-> Some(rgb), brightness |-> Some(brightness),
                                 score |-> total_score]
                           ELSE @]
                /\ out' = {}
           \/ /\ calib' = [calib EXCEPT !.pc = "done", !.controls = gain]
              /\ out' = {Ev("CameraCalibrated", "error", "")}
    /\ sweepFrame

\* lines 346-368 and 384-386: after the sweep the best settings are applied to
\* the camera and kept in memory, or the error event is sent
applyBest ==
    /\ calib.pc = "sweep"
    /\ Exhausted(calib.loop)
    /\ IF Truthy(calib.best_settings.gain)
       THEN /\ calib' = [calib EXCEPT !.pc = "save",
                                      !.controls = Val(calib.best_settings.gain),
                                      !.gain = Val(calib.best_settings.gain)]
            /\ out' = {}
       ELSE /\ calib' = [calib EXCEPT !.pc = "done"]
            /\ out' = {Ev("CameraCalibrated", "error", "")}
    /\ sweepFrame

\* lines 370-382 and 387-389: the camera section of config.json is updated
\* and success is sent; a file that cannot be opened or parsed is logged and
\* success is sent; a file without the camera section raises KeyError, which
\* the except clause of calibrate answers with the error event
saveConfig ==
    /\ calib.pc = "save"
    /\ \/ /\ calib.config.kind = "ok"
          /\ calib' = [calib EXCEPT !.pc = "done", !.config.gain = calib.gain]
          /\ out' = {Ev("CameraCalibrated", "success", "")}
       \/ /\ calib.config.kind = "unreadable"
          /\ calib' = [calib EXCEPT !.pc = "done"]
          /\ out' = {Ev("CameraCalibrated", "success", "")}
       \/ /\ calib.config.kind = "noCameraSection"
          /\ calib' = [calib EXCEPT !.pc = "done"]
          /\ out' = {Ev("CameraCalibrated", "error", "")}
    /\ sweepFrame

\* the shutdown signal: stopEvent is set while calibrate runs; no line of
\* calibrate reads it
setStopEvent ==
    /\ calib.pc = "sweep"
    /\ ~calib.stopEvent
    /\ calib' = [calib EXCEPT !.stopEvent = TRUE]
    /\ UNCHANGED out
    /\ sweepFrame

SweepNext ==
    \/ sweepStart
    \/ setStopEvent
    \/ sweepCombination
    \/ applyBest
    \/ saveConfig

SweepSpec == SweepInit /\ [][SweepNext]_vars

\* C21: when the sweep has run over every combination, then if a combination
\* scored above zero the best one is on the camera, in memory and in
\* config.json and success is sent, and if none did the error event is sent
\* and the gain in memory and in config.json is the one from before.
C21_BestAppliedAndPersisted ==
    [][(Exhausted(calib.loop) /\ calib'.pc = "done") =>
          IF calib'.best_settings.score > 0
          THEN /\ out' = {Ev("CameraCalibrated", "success", "")}
               /\ calib'.controls = Val(calib'.best_settings.gain)
               /\ calib'.gain = Val(calib'.best_settings.gain)
               /\ calib'.config.gain = Val(calib'.best_settings.gain)
          ELSE /\ out' = {Ev("CameraCalibrated", "error", "")}
               /\ calib'.gain = calib.gain
               /\ calib'.config.gain = calib.config.gain]_vars

\* the sweep found a best combination, config.json could not be opened or
\* parsed, and success was sent with the old gain still in the file
C21_Witness ==
    /\ calib.pc = "done"
    /\ calib.config.kind = "unreadable"
    /\ calib.best_settings.score > 0
    /\ calib.config.gain # Val(calib.best_settings.gain)
    /\ out = {Ev("CameraCalibrated", "success", "")}

(***************************************************************************)
(* Analysis.performAnalysis on numbers: baseline removal, valley           *)
(* detection and the comparison with the reference spectra.  The values    *)
(* are integers; where numpy.interp gives a fraction, every vector of the  *)
(* call is kept multiplied by the same denominator (the target length      *)
(* minus one), under which mean, deviation, similarity and the order of    *)
(* the root mean square errors compare as they do on the fractions.        *)
(***************************************************************************)
\* the longest profile with one dip, the longest spectrum compared, the
\* highest intensity and the longest list of reference spectra
MaxDipLen == 8
MaxLen == 3
MaxLevel == 2
MaxRefs == 4

\* the minimum distance between peaks passed to find_peaks
distance == 5

RECURSIVE SeqSum(_)
SeqSum(s) == IF s = <<>> THEN 0 ELSE Head(s) + SeqSum(Tail(s))

\* the denominator of a call on a profile of n values that resamples vectors
\* of these lengths: 1 when numpy.interp only copies values
Denominator(n, lengths) ==
    IF n = 1 \/ \A l \in lengths : l \in {1, n} THEN 1 ELSE n - 1

\* numpy.interp(linspace(0, 1, n), linspace(0, 1, Len(values)), values), times den
interp(values, n, den) ==
    LET m == Len(values)
    IN  [j \in 1..n |->
            IF n = 1 THEN den * values[1]
            ELSE LET pos  == (j - 1) * (m - 1)
                     k    == pos \div (n - 1)
                     frac == pos % (n - 1)
                 IN  IF k >= m - 1 THEN den * values[m]
                     ELSE den * values[k + 1]
                          + ((den * frac) \div (n - 1)) * (values[k + 2] - values[k + 1])]

\* Analysis._compute_processed_profile, times den
computeProcessedProfile(intensityProfile, base, den) ==
    LET profile == AsFloat32(intensityProfile)
        n == Len(profile)
    IN  IF n = 0 \/ base = None \/ Val(base) = <<>>
        THEN [i \in 1..n |-> den * profile[i]]
        ELSE LET baseArray == AsFloat32(Val(base))
                 baseResampled == IF Len(baseArray) # n
                                  THEN interp(baseArray, n, den)
                                  ELSE [i \in 1..n |-> den * baseArray[i]]
             IN  [i \in 1..n |-> baseResampled[i] - den * profile[i]]

\* Analysis._resample_spectrum, times den
resampleSpectrum(spectrum, target_length, den) ==
    LET spectrumArray == AsFloat32(spectrum)
    IN  IF Len(spectrumArray) = 0 \/ target_length <= 0 THEN <<>>
        ELSE IF Len(spectrumArray) = target_length
        THEN [i \in 1..target_length |-> den * spectrumArray[i]]
        ELSE IF Len(spectrumArray) = 1
        THEN [i \in 1..target_length |-> den * spectrumArray[1]]
        ELSE interp(spectrumArray, target_length, den)

\* numpy.max
SeqMax(s) == CHOOSE v \in {s[i] : i \in 1..Len(s)} : \A i \in 1..Len(s) : s[i] <= v

\* scipy.signal._peak_finding_utils._local_maxima_1d: the last sample of the
\* run of equal samples that starts at i
RECURSIVE plateauEnd(_, _)
plateauEnd(x, i) ==
    IF i < Len(x) /\ x[i + 1] = x[i] THEN plateauEnd(x, i + 1) ELSE i

\* _local_maxima_1d: the midpoints (counted from 0) of the runs that are
\* higher than the sample before and the sample after them
localMaxima(x) ==
    {((i - 1) + (plateauEnd(x, i) - 1)) \div 2 :
        i \in {i \in 2..Len(x) - 1 :
                  /\ x[i - 1] < x[i]
                  /\ plateauEnd(x, i) < Len(x)
                  /\ x[plateauEnd(x, i) + 1] < x[i]}}

\* x[peak] >= numpy.mean(x) + numpy.std(x) / 2, without the root:
\* with L = n x[peak] - sum(x), L >= 0 and 4 L^2 >= n sum(x^2) - sum(x)^2
heightReached(x, peak) ==
    LET n == Len(x)
        L == n * x[peak + 1] - SeqSum(x)
    IN  /\ L >= 0
        /\ 4 * L * L >= n * SeqSum([i \in 1..n |-> x[i] * x[i]]) - SeqSum(x) * SeqSum(x)

\* scipy.signal._peak_finding_utils._select_by_peak_distance: from the
\* highest peak down (of equal ones the later first), a peak that is still
\* kept removes the peaks closer to it than the distance
RECURSIVE selectByPeakDistance(_, _, _)
selectByPeakDistance(x, todo, keep) ==
    IF todo = {} THEN keep
    ELSE LET j == CHOOSE p \in todo :
                     \A q \in todo : \/ x[q + 1] < x[p + 1]
                                     \/ (x[q + 1] = x[p + 1] /\ q <= p)
         IN  selectByPeakDistance(x, todo \ {j},
                 IF j \in keep
                 THEN {k \in keep : k = j \/ k - j >= distance \/ j - k >= distance}
                 ELSE keep)

\* scipy.signal.find_peaks(x, height=mean + std / 2, distance=5)
find_peaks(x) ==
    LET peaks == {p \in localMaxima(x) : heightReached(x, p)}
    IN  selectByPeakDistance(x, peaks, peaks)

\* the samples of the inverted profile that reach the height, with neither
\* the test for a flat profile nor the search for local maxima
detectByHeightOnly(workingProfile) ==
    LET x == [i \in 1..Len(workingProfile) |->
                 SeqMax(workingProfile) - workingProfile[i]]
    IN  {p \in 0..(Len(x) - 1) : heightReached(x, p)}

\* Analysis.detectAbsorbanceValleys on a processed profile of the size of
\* the profile: the indices, counted from 0
detectAbsorbanceValleys(workingProfile) ==
    IF workingProfile = <<>> THEN {}
    ELSE IF \A i \in 1..Len(workingProfile) : workingProfile[i] = SeqMax(workingProfile)
    THEN {}
    ELSE find_peaks([i \in 1..Len(workingProfile) |->
                        SeqMax(workingProfile) - workingProfile[i]])

\* numpy.dot
Dot(a, b) == SeqSum([i \in 1..Len(a) |-> a[i] * b[i]])

RECURSIVE GCD(_, _)
GCD(a, b) == IF b = 0 THEN a ELSE GCD(b, a % b)

\* similarity = 0.0 if denom == 0.0 else numerator / denom, kept without the
\* roots as a fraction in lowest terms: the similarity is the signed root of
\* num / (den * Dot(processedArray, processedArray)), and 0 is num = 0
Similarity(processedArray, alignedRef) ==
    LET numerator == Dot(processedArray, alignedRef)
        square == numerator * numerator
        norm == Dot(alignedRef, alignedRef)
    IN  IF Dot(processedArray, processedArray) = 0 \/ norm = 0 \/ numerator = 0
        THEN [num |-> 0, den |-> 1]
        ELSE [num |-> (IF numerator < 0 THEN 0 - square ELSE square)
                          \div GCD(square, norm),
              den |-> norm \div GCD(square, norm)]

\* the loop of compareWithReferences over self.referenceSpectra: one match
\* for each reference whose spectrum is not empty; rmse is kept as the sum
\* of the squared differences, which orders as it does
RECURSIVE compareWithReferences(_, _, _)
compareWithReferences(references, processedArray, den) ==
    IF references = <<>> THEN <<>>
    ELSE LET reference == Head(references)
             alignedRef == resampleSpectrum(reference.spectrum, Len(processedArray), den)
             rest == compareWithReferences(Tail(references), processedArray, den)
         IN  IF Len(reference.spectrum) = 0 \/ Len(alignedRef) = 0
                \/ Len(processedArray) = 0
             THEN rest
             ELSE <<[substance |-> reference.substance,
                     rmse |-> Dot([i \in 1..Len(alignedRef) |->
                                      processedArray[i] - alignedRef[i]],
                                  [i \in 1..Len(alignedRef) |->
                                      processedArray[i] - alignedRef[i]]),
                     similarity |-> Similarity(processedArray, alignedRef)]>> \o rest

\* a sort key that looks at the error only
KeyRmseOnly(a, b) == a.rmse < b.rmse

\* key=lambda item: (-item["similarity"], item["rmse"]): a sorts before b
Key(a, b) ==
    \/ a.similarity.num * b.similarity.den > b.similarity.num * a.similarity.den
    \/ /\ a.similarity.num * b.similarity.den = b.similarity.num * a.similarity.den
       /\ a.rmse < b.rmse

\* list.sort, which is stable: a match goes behind the matches that came
\* before it in the list and do not sort after it
RECURSIVE sort(_)
sort(matches) ==
    IF matches = <<>> THEN <<>>
    ELSE LET front == sort(SubSeq(matches, 1, Len(matches) - 1))
             item  == matches[Len(matches)]
             k     == Cardinality({i \in 1..Len(front) : ~Key(item, front[i])})
         IN  SubSeq(front, 1, k) \o <<item>> \o SubSeq(front, k + 1, Len(front))

\* [match["substance"] for match in matches[:3]]
FirstThree(matches) ==
    [i \in 1..(IF Len(matches) < 3 THEN Len(matches) ELSE 3) |-> matches[i].substance]

\* the profiles extractSpectrogramProfile may give, up to a length
ProfilesUpTo(n) == UNION {[1..len -> 0..MaxLevel] : len \in 0..n}

\* the flat profiles with one sample lower by a depth, not at either end
DipProfiles ==
    UNION {UNION {UNION {{[i \in 1..n |-> IF i = p THEN level - depth ELSE level] :
                             depth \in 1..level} :
                            p \in 2..n - 1} :
                     level \in 1..MaxLevel} :
              n \in 3..MaxDipLen}

\* the reference spectra a database may hold: two of one substance, one that
\* is zero everywhere and one that is empty
Catalogue ==
    {ReferenceEntry("NaCl", <<1, 2>>), ReferenceEntry("NaCl", <<2, 1, 0>>),
     ReferenceEntry("KCl", <<0, 0>>), ReferenceEntry("KCl", <<>>),
     ReferenceEntry("LiCl", <<2, 1>>)}

\* the lists of at most n different entries of the catalogue
ReferenceLists(n) ==
    {list \in UNION {[1..k -> Catalogue] : k \in 0..n} :
        \A i, j \in 1..Len(list) : i < j => list[i] # list[j]}

\* the profile and the baseline of the worked example: a flat baseline of 50
\* samples of 100, and a profile that drops to 40 on the samples 20 to 24
ExampleBaseline == [i \in 1..50 |-> 100]
ExampleProfile == [i \in 1..50 |-> IF i - 1 \in 20..24 THEN 40 ELSE 100]

\* the database of the worked example: a flat spectrum, and the spectrum
\* stored from a capture like the example
ExampleReferences ==
    <<ReferenceEntry("KCl", [i \in 1..50 |-> 2]),
      ReferenceEntry("NaCl", [i \in 1..50 |-> IF i - 1 \in 20..24 THEN 60 ELSE 0])>>

\* The calls of performAnalysis followed: the profile of the image, the
\* baseline and the reference database the call finds.  Profiles with one
\* dip with no baseline, a flat one of their length and a flat one of
\* another length; short profiles with baselines of their length and of
\* other lengths; calls that find no reference data loaded; short profiles
\* with a database of at most n spectra; and the worked example.
Cases(n) ==
    {[profile |-> profile, base |-> base, references |-> Some(<<>>)] :
        profile \in DipProfiles, base \in {None, Some(ConfiguredBaseProfile)}}
    \cup {[profile |-> profile, references |-> Some(<<>>),
           base |-> Some([i \in 1..Len(profile) |-> profile[1]])] :
             profile \in DipProfiles}
    \cup {[profile |-> profile, base |-> base, references |-> Some(<<>>)] :
             profile \in ProfilesUpTo(MaxLen),
             base \in {None, Some(<<>>), Some(<<1>>), Some(<<0, 2>>), Some(<<2, 0, 1>>)}}
    \cup {[profile |-> profile, base |-> None, references |-> None] :
             profile \in ProfilesUpTo(1)}
    \cup {[profile |-> profile, base |-> None, references |-> Some(references)] :
             profile \in ProfilesUpTo(MaxLen) \ {<<>>},
             references \in ReferenceLists(n)}
    \cup {[profile |-> ExampleProfile, base |-> Some(ExampleBaseline),
           references |-> Some(ExampleReferences)]}

\* what performAnalysis leaves alone
pipelineFrame ==
    UNCHANGED <<analysisVars, hpc, hImage, hFor, workers, cameraReady, camInbox, anaInbox,
                budget, calInFlight, nsTrack, referenceFile, storeVars, captureVars,
                calib, gui, sensor>>

PipelineInit ==
    /\ calibrationInProgress = FALSE
    /\ newSubstanceState = None
    /\ referenceFile = EmptyFile
    /\ hpc = "idle"
    /\ hImage = ""
    /\ hFor = ""
    /\ workers = [t \in Threads |-> 0]
    /\ cameraReady = FALSE
    /\ camInbox = [c \in CameraCommands |-> 0]
    /\ anaInbox = [m \in CameraMessages |-> 0]
    /\ budget = 0
    /\ out = {}
    /\ calInFlight = FALSE
    /\ nsTrack = FreshTrack
    /\ storePc = "idle"
    /\ storeArg = None
    /\ captureLock = 0
    /\ lightReady = FALSE
    /\ capture = [w \in 1..MaxCaptures |-> NoCapture]
    /\ sweepPc = 0
    /\ lightInbox = NoAcks
    /\ lightLog = "TurnOff"
    /\ calib = NoCalib
    /\ gui = NoGui
    /\ sensor = NoSensor
    /\ \E case \in Cases(MaxRefs) :
          /\ baseIntensityProfile = case.base
          /\ referenceSpectra = case.references
          /\ pipeline = [pc |-> "new", profile |-> case.profile]
    /\ configBaseProfile = baseIntensityProfile

\* Analysis.performAnalysis and sendAnalysisResults: the four phases, or the
\* except clause when the profile is empty or no reference data is loaded
performAnalysisCall ==
    /\ pipeline.pc = "new"
    /\ LET intensityProfile == AsFloat32(pipeline.profile)
           den == Denominator(Len(intensityProfile),
                      (IF baseIntensityProfile = None THEN {}
                       ELSE {Len(Val(baseIntensityProfile))} \ {0}) \cup
                      (IF referenceSpectra = None THEN {}
                       ELSE {Len(Val(referenceSpectra)[i].spectrum) :
                                i \in 1..Len(Val(referenceSpectra))} \ {0}))
           processedProfile ==
               computeProcessedProfile(intensityProfile, baseIntensityProfile, den)
           peaksIndices == detectAbsorbanceValleys(processedProfile)
       IN  \/ /\ Len(intensityProfile) = 0 \/ referenceSpectra = None
              /\ pipeline' = [pc |-> "raised", profile |-> pipeline.profile]
              /\ out' = {Ev("AnalysisError", "", "")}
           \/ /\ Len(intensityProfile) > 0
              /\ referenceSpectra # None
              /\ LET matches == sort(compareWithReferences(Val(referenceSpectra),
                                                           processedProfile, den))
                 IN  pipeline' =
                        [pc |-> "sent",
                         profile |-> pipeline.profile,
                         den |-> den,
                         processed_spectrogram |-> processedProfile,
                         detected_peaks |-> peaksIndices,
                         reference_matches |-> matches,
                         identified_substances |-> FirstThree(matches)]
              /\ out' = {Ev("AnalysisComplete", "", "")}
    /\ pipelineFrame

PipelineSpec == PipelineInit /\ [][performAnalysisCall]_vars

\* C29: the processed profile of a call is, sample by sample, the profile
\* minus the baseline resampled to the length of the profile, and it is the
\* profile when there is no baseline.
C29_ProfileMinusBaseline ==
    pipeline.pc = "sent" =>
        LET n == Len(pipeline.profile)
            base == IF baseIntensityProfile = None THEN <<>>
                    ELSE Val(baseIntensityProfile)
        IN  pipeline.processed_spectrogram =
               [i \in 1..n |->
                   IF base = <<>>
                   THEN pipeline.den * pipeline.profile[i]
                   ELSE pipeline.den * pipeline.profile[i]
                        - interp(base, n, pipeline.den)[i]]

\* a call with a baseline of another length than the profile: the processed
\* profile is the resampled baseline minus the profile
C29_Witness ==
    /\ pipeline.pc = "sent"
    /\ baseIntensityProfile = Some(<<0, 2>>)
    /\ pipeline.profile = <<2, 2, 1>>
    /\ pipeline.den = 2
    /\ pipeline.processed_spectrogram = <<-4, -2, 2>>

\* C30: a flat profile with one sample lower than the others, not at either
\* end, gives exactly one detected peak, at the index of that sample, both
\* with no baseline and with a flat baseline.
C30_OneDipOnePeak ==
    (/\ pipeline.pc = "sent"
     /\ pipeline.profile \in DipProfiles
     /\ \/ baseIntensityProfile = None
        \/ \A i \in 1..Len(Val(baseIntensityProfile)) :
              Val(baseIntensityProfile)[i] = Val(baseIntensityProfile)[1]) =>
        pipeline.detected_peaks =
           {i - 1 : i \in {i \in 1..Len(pipeline.profile) :
                              pipeline.profile[i] < pipeline.profile[1]}}

\* the dip of a profile under a flat baseline of its length: no peak
C30_Witness ==
    /\ pipeline.pc = "sent"
    /\ pipeline.profile = <<2, 2, 2, 0, 2, 2, 2, 2>>
    /\ baseIntensityProfile = Some([i \in 1..8 |-> 2])
    /\ pipeline.processed_spectrogram = <<0, 0, 0, 2, 0, 0, 0, 0>>
    /\ pipeline.detected_peaks = {}

\* C25: the worked example (a flat baseline of 50 samples of 100, a profile
\* that drops to 40 on the samples 20 to 24) ends with AnalysisComplete, with
\* exactly one detected peak, near index 22, with a processed profile that is
\* lower on those samples than elsewhere, and with the reference of that
\* shape listed first.
C25_ExampleEndToEnd ==
    (/\ pipeline.pc = "sent"
     /\ pipeline.profile = ExampleProfile
     /\ baseIntensityProfile = Some(ExampleBaseline)
     /\ referenceSpectra = Some(ExampleReferences)) =>
        /\ out = {Ev("AnalysisComplete", "", "")}
        /\ Cardinality(pipeline.detected_peaks) = 1
        /\ pipeline.detected_peaks \subseteq 20..24
        /\ \A i \in 20..24 : pipeline.processed_spectrogram[i + 1]
                                < pipeline.processed_spectrogram[1]
        /\ pipeline.reference_matches[1].substance = "NaCl"

\* the worked example as the code ends it: the processed profile is 60 on
\* the samples 20 to 24 and 0 elsewhere, and no peak is detected
C25_Witness ==
    /\ pipeline.pc = "sent"
    /\ pipeline.profile = ExampleProfile
    /\ baseIntensityProfile = Some(ExampleBaseline)
    /\ out = {Ev("AnalysisComplete", "", "")}
    /\ pipeline.processed_spectrogram =
          [i \in 1..50 |-> IF i - 1 \in 20..24 THEN 60 ELSE 0]
    /\ pipeline.detected_peaks = {}
    /\ pipeline.reference_matches[1].substance = "NaCl"

\* C26: when the processed profile of a call is one of the stored spectra,
\* the first of the matches is a match of that substance with similarity 1
\* and error 0, whatever the spectrum, one that is zero everywhere included.
C26_SelfMatchFirst ==
    pipeline.pc = "sent" =>
        \A i \in 1..Len(Val(referenceSpectra)) :
            LET reference == Val(referenceSpectra)[i]
                processedArray == pipeline.processed_spectrogram
            IN  (/\ reference.spectrum # <<>>
                 /\ processedArray = [k \in 1..Len(reference.spectrum) |->
                                         pipeline.den * reference.spectrum[k]]) =>
                   LET first == pipeline.reference_matches[1]
                   IN  /\ first.substance = reference.substance
                       /\ first.rmse = 0
                       /\ first.similarity.num > 0
                       /\ first.similarity.num =
                             first.similarity.den * Dot(processedArray, processedArray)

\* the processed profile is the stored spectrum that is zero everywhere: its
\* match is the first one, with error 0 and similarity 0
C26_Witness ==
    /\ pipeline.pc = "sent"
    /\ pipeline.processed_spectrogram = <<0, 0>>
    /\ Len(Val(referenceSpectra)) > 1
    /\ pipeline.reference_matches[1] =
          [substance |-> "KCl", rmse |-> 0, similarity |-> [num |-> 0, den |-> 1]]

\* C27: the matches of a call are one for each stored spectrum that is not
\* empty, substance by substance; no match has a lower similarity than a
\* later one, nor at the same similarity a higher error; and the identified
\* substances are those of the first three matches, in that order.
C27_MatchesOrdered ==
    pipeline.pc = "sent" =>
        LET matches == pipeline.reference_matches
            stored == Val(referenceSpectra)
        IN  /\ \A substance \in {stored[i].substance : i \in 1..Len(stored)} :
                  Cardinality({i \in 1..Len(matches) :
                                  matches[i].substance = substance})
                  = Cardinality({i \in 1..Len(stored) :
                                    /\ stored[i].substance = substance
                                    /\ stored[i].spectrum # <<>>})
            /\ Len(matches) = Cardinality({i \in 1..Len(stored) :
                                              stored[i].spectrum # <<>>})
            /\ \A i, j \in 1..Len(matches) :
                  i < j =>
                     LET a == matches[i].similarity.num * matches[j].similarity.den
                         b == matches[j].similarity.num * matches[i].similarity.den
                     IN  a > b \/ (a = b /\ matches[i].rmse <= matches[j].rmse)
            /\ Len(pipeline.identified_substances)
                  = (IF Len(matches) < 3 THEN Len(matches) ELSE 3)
            /\ \A i \in 1..Len(pipeline.identified_substances) :
                  pipeline.identified_substances[i] = matches[i].substance

\* C27 witness: four stored spectra that are not empty give four matches, in
\* another order than they are stored in, the last of them left out of the
\* identified substances, and two of them with the same similarity in the
\* order of their errors
C27_Witness ==
    /\ pipeline.pc = "sent"
    /\ Len(pipeline.reference_matches) = 4
    /\ pipeline.reference_matches[1].substance # Val(referenceSpectra)[1].substance
    /\ Len(pipeline.identified_substances) = 3
    /\ \E i \in 1..3 :
          /\ pipeline.reference_matches[i].similarity
                = pipeline.reference_matches[i + 1].similarity
          /\ pipeline.reference_matches[i].rmse < pipeline.reference_matches[i + 1].rmse
          /\ pipeline.reference_matches[i].similarity.num > 0

\* C28: no substance is named twice in the identified substances of a call.
C28_NoDuplicateNames ==
    pipeline.pc = "sent" =>
        \A i, j \in 1..Len(pipeline.identified_substances) :
            i < j => pipeline.identified_substances[i] # pipeline.identified_substances[j]

\* two stored spectra of one substance are both among the first three
\* matches, and the substance is named twice
C28_Witness ==
    /\ pipeline.pc = "sent"
    /\ Len(pipeline.reference_matches) = 4
    /\ pipeline.identified_substances[1] = "NaCl"
    /\ pipeline.identified_substances[2] = "NaCl"

\* C31: a call whose profile is flat after the baseline correction (its
\* largest value equals its smallest) detects no peak, whatever the value,
\* and still returns the corrected profile, one value for each sample.
C31_FlatNoPeaks ==
    (/\ pipeline.pc = "sent"
     /\ \A i \in 1..Len(pipeline.processed_spectrogram) :
           pipeline.processed_spectrogram[i] = pipeline.processed_spectrogram[1]) =>
        /\ pipeline.detected_peaks = {}
        /\ Len(pipeline.processed_spectrogram) = Len(pipeline.profile)
        /\ pipeline.processed_spectrogram =
              computeProcessedProfile(AsFloat32(pipeline.profile),
                                      baseIntensityProfile, pipeline.den)
        /\ out = {Ev("AnalysisComplete", "", "")}

\* a flat profile over a baseline of one sample: the corrected profile is
\* flat and not zero, and no peak is reported
C31_Witness ==
    /\ pipeline.pc = "sent"
    /\ pipeline.profile = <<2, 2, 2>>
    /\ baseIntensityProfile = Some(<<1>>)
    /\ pipeline.processed_spectrogram = <<-1, -1, -1>>
    /\ pipeline.detected_peaks = {}

(***************************************************************************)
(* The capture of a new substance, with its numbers                        *)
(*                                                                         *)
(* One call of _handleNewSubstanceCapture on a decoded image, followed     *)
(* through the difference, its largest value and the entry it stores.  The *)
(* record pipeline holds the profile of the image and the two values of    *)
(* the configuration, and after the call the fields of the event.          *)
(* Wavelengths are counted in half nanometres, so that the factor 0.5 of   *)
(* the configuration is 1.                                                  *)
(***************************************************************************)
\* config.get("pixel_to_nm_factor", 0.5) and config.get("pixel_to_nm_offset",
\* 400.0): the values a configuration may hold, the defaults among them
PixelToNmFactors == {1, 2}
PixelToNmOffsets == {0, 800}

\* numpy.argmax, counted from 0: the first index of the largest value
argmaxLast(a) ==
    CHOOSE i \in 0..(Len(a) - 1) :
        /\ \A j \in 1..Len(a) : a[j] <= a[i + 1]
        /\ \A j \in (i + 2)..Len(a) : a[j] < a[i + 1]

argmax(a) ==
    CHOOSE i \in 0..(Len(a) - 1) :
        /\ \A j \in 1..Len(a) : a[j] <= a[i + 1]
        /\ \A j \in 1..i : a[j] < a[i + 1]

\* diffProfile = self._get_resampled_base_profile(size) - intensityProfile: a
\* baseline of the size of the profile is subtracted in float32, another one
\* is resampled by numpy.interp to float64 and the difference is a float64
\* array, which holds the values that float32 rounds
diffProfileOf(base, intensityProfile) ==
    LET n == Len(intensityProfile)
        baseArray == AsFloat32(base)
    IN  IF Len(baseArray) = n
        THEN [i \in 1..n |-> Float32(baseArray[i] - intensityProfile[i])]
        ELSE [i \in 1..n |-> interp(baseArray, n, 1)[i] - intensityProfile[i]]

\* what makes the try block raise once the image is decoded: an empty
\* profile, no baseline or an empty one
substanceCallRaises ==
    IF pipeline.profile = <<>> \/ baseIntensityProfile = None THEN TRUE
    ELSE Val(baseIntensityProfile) = <<>>

\* the baselines of the calls followed: none, an empty one, one of a single
\* sample, one of a single sample that float32 holds exactly and whose
\* differences it does not, and baselines of two and three samples
SubstanceBaselines ==
    {None, Some(<<>>), Some(<<1>>), Some(<<8>>), Some(<<0, 2>>), Some(<<2, 0, 1>>),
     Some(<<2, 2, 2>>)}

\* the calls followed: a profile of the image and a baseline that numpy.interp
\* resamples to the length of the profile without a fraction
SubstanceCases ==
    {c \in [profile : ProfilesUpTo(MaxLen), base : SubstanceBaselines] :
        \/ c.base = None
        \/ Denominator(Len(c.profile), {Len(Val(c.base))} \ {0}) = 1}

SubstanceInit ==
    /\ calibrationInProgress = FALSE
    /\ hpc = "idle"
    /\ hImage = ""
    /\ hFor = ""
    /\ workers = [t \in Threads |-> 0]
    /\ cameraReady = FALSE
    /\ camInbox = [c \in CameraCommands |-> 0]
    /\ anaInbox = [m \in CameraMessages |-> 0]
    /\ budget = 0
    /\ out = {}
    /\ calInFlight = FALSE
    /\ nsTrack = FreshTrack
    /\ storePc = "idle"
    /\ storeArg = None
    /\ captureLock = 0
    /\ lightReady = FALSE
    /\ capture = [w \in 1..MaxCaptures |-> NoCapture]
    /\ sweepPc = 0
    /\ lightInbox = NoAcks
    /\ lightLog = "TurnOff"
    /\ calib = NoCalib
    /\ gui = NoGui
    /\ sensor = NoSensor
    /\ \E substance \in {"NaCl", "KCl"} :
          newSubstanceState = Some([substance |-> substance, status |-> "waiting_image"])
    /\ \/ referenceSpectra = None /\ referenceFile = EmptyFile
       \/ referenceSpectra = Some(<<>>) /\ referenceFile = EmptyFile
       \/ /\ referenceSpectra = Some(<<ReferenceEntry("KCl", <<2, -2>>)>>)
          /\ referenceFile = PopulatedFile
    /\ \E case \in SubstanceCases, factor \in PixelToNmFactors, offset \in PixelToNmOffsets :
          /\ baseIntensityProfile = case.base
          /\ pipeline = [pc |-> "capture", profile |-> AsFloat32(case.profile),
                         pixel_to_nm_factor |-> factor, pixel_to_nm_offset |-> offset]
    /\ configBaseProfile = baseIntensityProfile

\* Analysis._handleNewSubstanceCapture on an image that decodes, lines
\* 195-240: the difference, its largest value, the entry stored and the
\* event, or the except clause; the finally clause empties the slot
handleNewSubstanceCaptureCall ==
    /\ pipeline.pc = "capture"
    /\ newSubstanceState # None
    /\ LET substance == Val(newSubstanceState).substance
           diffProfile == diffProfileOf(Val(baseIntensityProfile), pipeline.profile)
           peakIdx == argmax(diffProfile)
       IN  \/ /\ substanceCallRaises
              /\ pipeline' = [pc |-> "failed", profile |-> pipeline.profile]
              /\ out' = {Ev("NewReferenceCapture", "error", substance)}
              /\ UNCHANGED <<referenceSpectra, referenceFile>>
           \/ /\ ~substanceCallRaises      \* the file write raises
              /\ referenceFile' \in
                    failedFiles(referenceFile, ReferenceEntry(substance, diffProfile))
              /\ pipeline' = [pc |-> "failed", profile |-> pipeline.profile]
              /\ out' = {Ev("NewReferenceCapture", "error", substance)}
              /\ UNCHANGED referenceSpectra
           \/ /\ ~substanceCallRaises
              /\ referenceFile' =
                    writtenFile(referenceFile, ReferenceEntry(substance, diffProfile))
              /\ referenceSpectra' = storeReferenceSpectrum(diffProfile, substance)
              /\ pipeline' =
                    [pc |-> "stored",
                     profile |-> pipeline.profile,
                     substance |-> substance,
                     diffProfile |-> diffProfile,
                     peakIdx |-> peakIdx,
                     wavelength_nm |-> peakIdx * pipeline.pixel_to_nm_factor
                                       + pipeline.pixel_to_nm_offset,
                     intensity |-> diffProfile[peakIdx + 1]]
              /\ out' = {Ev("NewReferenceCapture", "completed", substance)}
    /\ newSubstanceState' = SlotAfterCapture
    /\ UNCHANGED <<calibrationInProgress, baseIntensityProfile, configBaseProfile,
                   hpc, hImage, hFor, workers, cameraReady, camInbox, anaInbox, budget,
                   calInFlight, nsTrack, storeVars, captureVars, calib, gui, sensor>>

SubstanceSpec == SubstanceInit /\ [][handleNewSubstanceCaptureCall]_vars

\* the entry a completed capture appended to the list in memory
LastReference == Val(referenceSpectra)[Len(Val(referenceSpectra))]

\* the baseline of a call resampled to the length of its profile
ResampledBaseline ==
    interp(AsFloat32(Val(baseIntensityProfile)), Len(pipeline.profile), 1)

\* what a completed capture of a new substance computes, but for the spectrum
\* of the entry it stores: the difference is the resampled baseline minus
\* the profile (rounded to float32 when the subtraction is done in float32),
\* the peak is the first index of its largest value, the wavelength is
\* index * factor + offset, the intensity is the difference at the index, and
\* the entry appended carries the substance of the request
PeakOfDifference ==
    LET diff == pipeline.diffProfile
        n == Len(pipeline.profile)
    IN  /\ Len(diff) = n
        /\ \A i \in 1..n :
              \/ diff[i] = ResampledBaseline[i] - pipeline.profile[i]
              \/ /\ Len(Val(baseIntensityProfile)) = n
                 /\ diff[i] = Float32(ResampledBaseline[i] - pipeline.profile[i])
        /\ pipeline.peakIdx \in 0..(n - 1)
        /\ \A j \in 1..n : diff[j] <= diff[pipeline.peakIdx + 1]
        /\ \A j \in 1..pipeline.peakIdx : diff[j] < diff[pipeline.peakIdx + 1]
        /\ \E factor \in PixelToNmFactors, offset \in PixelToNmOffsets :
              pipeline.wavelength_nm = pipeline.peakIdx * factor + offset
        /\ pipeline.intensity = diff[pipeline.peakIdx + 1]
        /\ out = {Ev("NewReferenceCapture", "completed", pipeline.substance)}
        /\ LastReference.substance = pipeline.substance

\* C32: a completed capture of a new substance computes the difference of
\* the resampled baseline and the profile, takes the first index of its
\* largest value as the peak, index * factor + offset as its wavelength and
\* the difference there as its intensity, and appends a reference of the
\* requested substance whose spectrum is the difference converted to float32.
C32_SpectrumIsFloat32Difference ==
    pipeline.pc = "stored" =>
        /\ PeakOfDifference
        /\ LastReference.spectrum = AsFloat32(pipeline.diffProfile)

\* C32 as stated: the spectrum of the appended reference is exactly the
\* difference
C32_SpectrumIsDifference ==
    pipeline.pc = "stored" =>
        /\ PeakOfDifference
        /\ LastReference.spectrum = pipeline.diffProfile

\* a baseline of two samples under a profile of two: the largest difference
\* is reached twice, the peak is the first of the two, at the wavelength of
\* the offset, and the stored spectrum is the difference
C32_Witness ==
    /\ pipeline.pc = "stored"
    /\ baseIntensityProfile = Some(<<2, 2, 2>>)
    /\ pipeline.profile = <<1, 0, 0>>
    /\ pipeline.diffProfile = <<1, 2, 2>>
    /\ pipeline.peakIdx = 1
    /\ pipeline.wavelength_nm = 801
    /\ pipeline.intensity = 2
    /\ LastReference = ReferenceEntry(pipeline.substance, <<1, 2, 2>>)

\* the place of a value in a list of different values
IndexOf(list, value) == CHOOSE i \in 1..Len(list) : list[i] = value

\* the number of combinations that come before a combination when the gain
\* varies slowest, then the exposure, then the colour, then the brightness
Position(t) ==
    (((IndexOf(gain_list, t.gain) - 1) * Len(exposure_list)
      + (IndexOf(exposure_list, t.exposure) - 1)) * Len(rgb_colors_list)
     + (IndexOf(rgb_colors_list, t.rgb) - 1)) * Len(led_brightness_list)
    + (IndexOf(led_brightness_list, t.brightness) - 1)

\* C33: the sweep tests the combinations in the nested order gain, exposure,
\* colour, brightness, and a combination tested replaces the retained one
\* only if its score is strictly higher: on a tie the first one stays.
C33_FirstBestKept ==
    [][calib'.tried = calib.tried + 1 =>
          LET t == Val(calib'.tested)
          IN  /\ Position(t) = calib.tried
              /\ IF t.score > calib.best_settings.score
                 THEN calib'.best_settings =
                         [gain |-> Some(t.gain), exposure |-> Some(t.exposure),
                          rgb |-> Some(t.rgb), brightness |-> Some(t.brightness),
                          score |-> t.score]
                 ELSE calib'.best_settings = calib.best_settings]_vars

\* the combination just tested scored as much as the retained one, which
\* was tested before it, and the retained one stayed
C33_Witness ==
    /\ calib.pc = "sweep"
    /\ calib.tested # None
    /\ calib.best_settings.gain # None
    /\ Val(calib.tested).score = calib.best_settings.score
    /\ Val(calib.tested).gain = 2
    /\ Val(calib.best_settings.gain) = 1
    /\ Val(calib.best_settings.brightness) = 35

\* C34: once the shutdown signal is set, the sweep tests no further
\* combination.
C34_StopsAtNextIteration ==
    [][calib.stopEvent => calib'.tried = calib.tried]_vars

\* the shutdown signal is set, combinations are left, and the next one is
\* about to be tested
C34_Witness ==
    /\ calib.stopEvent
    /\ calib.tried > 0
    /\ ~Exhausted(calib.loop)
    /\ ENABLED sweepCombination

\* the calibration threads started for the last accepted calibration, and
\* those of earlier ones
CurrentCal == {t \in Threads : t.kind = "cal" /\ t.cur}
EarlierCal == {t \in Threads : t.kind = "cal" /\ ~t.cur}

\* C35: an accepted Calibrate has at most one calibration thread, so that
\* its baseline is replaced at most once and one terminal event is sent, and
\* a thread of an earlier calibration never clears the flag that a later
\* accepted Calibrate set.
C35_OneWorkerPerCalibration ==
    [][/\ Total(workers', CurrentCal) <= 1
       /\ \A t \in EarlierCal :
             (workers'[t] < workers[t] /\ calibrationInProgress) =>
                 calibrationInProgress']_vars

\* two calibration threads of one accepted Calibrate, each with an image
C35_Witness ==
    /\ calibrationInProgress
    /\ Total(workers, CurrentCal) = 2

\* C36: a calibration thread is never started on a picture that Camera took
\* for a CuvettePresent signal or for a user's request of an analysis.
C36_OnlyCalibrationImage ==
    [][CalTry(workers') > CalTry(workers) => hFor # "CuvettePresent"]_vars

\* the message loop holds a picture taken for a CuvettePresent signal, found
\* a calibration in progress at line 129, and the flag is still set
C36_Witness ==
    /\ hpc = "analyze"
    /\ hFor = "CuvettePresent"
    /\ calibrationInProgress
    /\ RoiValid(hImage)

\* C37: when a calibration ends, with completed or with error, the baseline
\* in memory is the one in the configuration file, and one that ends with
\* error leaves the baseline in memory as it was.
C37_BaselineAsPersisted ==
    [][/\ (out' \cap {Ev("AnalysisCalibration", "completed", ""),
                      Ev("AnalysisCalibration", "error", "")} # {}) =>
              baseIntensityProfile' = configBaseProfile'
       /\ Ev("AnalysisCalibration", "error", "") \in out' =>
              baseIntensityProfile' = baseIntensityProfile]_vars

\* a calibration ended with error, and the baseline in memory is the new
\* profile while the file holds the configured one
C37_Witness ==
    /\ Ev("AnalysisCalibration", "error", "") \in out
    /\ configBaseProfile = Some(ConfiguredBaseProfile)
    /\ baseIntensityProfile # None
    /\ baseIntensityProfile # configBaseProfile
    /\ ~calibrationInProgress

\* C38: while a capture waits for the light, a TurnedOn that answers the
\* TurnOn of an earlier capture does not set the event the capture waits for.
C38_AckOfOwnTurnOn ==
    [][(/\ lightInbox'[<<"TurnedOn", FALSE>>] < lightInbox[<<"TurnedOn", FALSE>>]
        /\ \E w \in 1..MaxCaptures : capture[w].pc = "wait") =>
          lightReady' = lightReady]_vars

\* a capture waits with the event set while the TurnedOn that answers its
\* own TurnOn is still on its way: the event was set by an earlier one
C38_Witness ==
    /\ \E w \in 1..MaxCaptures : capture[w].pc = "wait"
    /\ lightReady
    /\ lightInbox[<<"TurnedOn", TRUE>>] > 0

(***************************************************************************)
(* The round trip of a substance name: Analysis asks for a name with       *)
(* RequestName, GUI shows its popup, the user types and submits, and the   *)
(* message of GUI is handled by Analysis.handleMessage.  Messages keep     *)
(* the type their sender gave them.                                        *)
(***************************************************************************)
\* commands sent to Analysis in one run of the round trip
MaxNameCmds == 2

\* the type GUI gives the message that carries the name (gui.py, line 513)
\* and the type Analysis.handleMessage compares with (analysis.py, line 112)
SubmittedNameType == "newSubstanceName"
NewSubstanceNameType == "NewSubstanceName"

\* what the round trip leaves alone
nameFrame ==
    UNCHANGED <<anaInbox, hFor, referenceFile, storeVars, captureVars, calib,
                pipeline, sensor>>

NameInit ==
    /\ calibrationInProgress \in BOOLEAN
    /\ newSubstanceState = None
    /\ baseIntensityProfile \in {None, Some(ConfiguredBaseProfile)}
    /\ configBaseProfile = baseIntensityProfile
    /\ referenceFile = EmptyFile
    /\ referenceSpectra = onStart(referenceFile)
    /\ hpc = "idle"
    /\ hImage = ""
    /\ hFor = ""
    /\ workers = [t \in Threads |-> 0]
    /\ cameraReady = TRUE
    /\ camInbox = [c \in CameraCommands |-> 0]
    /\ anaInbox = [m \in CameraMessages |-> 0]
    /\ budget = MaxNameCmds
    /\ out = {}
    /\ calInFlight = calibrationInProgress
    /\ nsTrack = FreshTrack
    /\ storePc = "idle"
    /\ storeArg = None
    /\ captureLock = 0
    /\ lightReady = FALSE
    /\ capture = [w \in 1..MaxCaptures |-> NoCapture]
    /\ sweepPc = 0
    /\ lightInbox = NoAcks
    /\ lightLog = "TurnOff"
    /\ calib = NoCalib
    /\ pipeline = NoPipeline
    /\ gui = NoGui
    /\ sensor = NoSensor

\* Analysis.handleMessage, type AddSubstance, lines 108-111: RequestName is
\* sent to every module, GUI among them
nameAddSubstance ==
    /\ budget > 0
    /\ budget' = budget - 1
    /\ HandleAddSubstance
    /\ gui' = [gui EXCEPT !.requests = @ + 1]
    /\ nameFrame

\* a module other than GUI sends Analysis a NewSubstanceName command
nameCommand ==
    /\ budget > 0
    /\ budget' = budget - 1
    /\ \E name \in Names :
          gui' = [gui EXCEPT !.toAnalysis =
                     Append(@, [sender |-> "other", type |-> NewSubstanceNameType,
                                name |-> name])]
    /\ out' = {}
    /\ UNCHANGED <<analysisVars, hpc, hImage, workers, cameraReady, camInbox,
                   calInFlight, nsTrack>>
    /\ nameFrame

\* GUI.handleMessage, type RequestName, lines 466-467: the popup is scheduled
guiHandleRequestName ==
    /\ gui.requests > 0
    /\ gui' = [gui EXCEPT !.requests = @ - 1, !.scheduled = @ + 1]
    /\ out' = {}
    /\ UNCHANGED <<analysisVars, hpc, hImage, workers, cameraReady, camInbox,
                   budget, calInFlight, nsTrack>>
    /\ nameFrame

\* GUI._show_substance_name_popup, lines 486-521: a popup that exists is
\* shown again, otherwise one is built with an empty input
guiShowPopup ==
    /\ gui.scheduled > 0
    /\ gui' = [gui EXCEPT !.scheduled = @ - 1, !.popup = TRUE,
                          !.text = IF gui.popup THEN @ ELSE ""]
    /\ out' = {}
    /\ UNCHANGED <<analysisVars, hpc, hImage, workers, cameraReady, camInbox,
                   budget, calInFlight, nsTrack>>
    /\ nameFrame

\* the user types into the input of the popup
guiType ==
    /\ gui.popup
    /\ \E name \in Names : gui' = [gui EXCEPT !.text = name]
    /\ out' = {}
    /\ UNCHANGED <<analysisVars, hpc, hImage, workers, cameraReady, camInbox,
                   budget, calInFlight, nsTrack>>
    /\ nameFrame

\* submit_name, lines 510-514: a name that is not empty once stripped is
\* sent to Analysis and the popup is dismissed; _cleanup_name_popup, 523-525
guiSubmit ==
    /\ gui.popup
    /\ Strip(gui.text) # ""
    /\ gui' = [gui EXCEPT !.popup = FALSE, !.text = "",
                          !.toAnalysis =
                              Append(@, [sender |-> "GUI", type |-> SubmittedNameType,
                                         name |-> Strip(gui.text)])]
    /\ out' = {}
    /\ UNCHANGED <<analysisVars, hpc, hImage, workers, cameraReady, camInbox,
                   budget, calInFlight, nsTrack>>
    /\ nameFrame

\* the user dismisses the popup (auto_dismiss): _cleanup_name_popup
guiDismiss ==
    /\ gui.popup
    /\ gui' = [gui EXCEPT !.popup = FALSE, !.text = ""]
    /\ out' = {}
    /\ UNCHANGED <<analysisVars, hpc, hImage, workers, cameraReady, camInbox,
                   budget, calInFlight, nsTrack>>
    /\ nameFrame

\* Analysis.handleMessage on a message that carries a name, lines 99-127: the
\* branch of NewSubstanceName is taken when the type is that text, and a
\* message of a type no branch compares with is dropped
analysisHandleName ==
    /\ gui.toAnalysis # <<>>
    /\ gui' = [gui EXCEPT !.toAnalysis = Tail(@)]
    /\ IF Head(gui.toAnalysis).type = NewSubstanceNameType
       THEN HandleNewSubstanceName(Head(gui.toAnalysis).name)
       ELSE /\ out' = {}
            /\ UNCHANGED <<analysisVars, hpc, hImage, workers, cameraReady, camInbox,
                           calInFlight, nsTrack>>
    /\ budget' = budget
    /\ nameFrame

NameNext ==
    \/ nameAddSubstance
    \/ nameCommand
    \/ guiHandleRequestName
    \/ guiShowPopup
    \/ guiType
    \/ guiSubmit
    \/ guiDismiss
    \/ analysisHandleName

NameSpec == NameInit /\ [][NameNext]_vars

\* C39: when Analysis handles the message with which GUI submitted a name
\* that is not empty, while no calibration is in progress, a baseline is
\* there and no acquisition runs, the acquisition starts: Camera is asked
\* for a picture and NewReferenceCapture{requested} is sent for the name.
C39_SubmittedNameStartsAcquisition ==
    [][(/\ gui.toAnalysis # <<>>
        /\ gui'.toAnalysis = Tail(gui.toAnalysis)
        /\ Head(gui.toAnalysis).sender = "GUI"
        /\ ~calibrationInProgress
        /\ baseIntensityProfile # None
        /\ newSubstanceState = None) =>
          /\ out' = {Ev("NewReferenceCapture", "requested", Head(gui.toAnalysis).name)}
          /\ camInbox' = BagAdd(camInbox, "Take")
          /\ newSubstanceState' # None]_vars

\* the name submitted in the popup is the next message of Analysis, which is
\* idle with a baseline
C39_Witness ==
    /\ gui.toAnalysis # <<>>
    /\ Head(gui.toAnalysis) = [sender |-> "GUI", type |-> SubmittedNameType,
                               name |-> "NaCl"]
    /\ ~calibrationInProgress
    /\ baseIntensityProfile # None
    /\ newSubstanceState = None
    /\ ~gui.popup

(***************************************************************************)
(* CuvetteSensor.  In src/cuvetteSensor.py a process polls the sensor and  *)
(* keeps the mode it was last told through a pipe; a listener thread of    *)
(* the module dispatches what the process reports.  In                     *)
(* src/application/cuvetteSensor.py a thread of the module polls the       *)
(* sensor and dispatches by self.mode.  The field detectedIn records, for  *)
(* each report, the mode of the module when the sensor was read.           *)
(***************************************************************************)
\* mode commands sent to CuvetteSensor, and insertions or removals of the
\* cuvette, in one run
MaxModeCmds == 2
MaxToggles == 2

Modes == {"Analysis", "AddSubstance"}
Variants == {"process", "thread"}

\* a message of CuvetteSensor: its target, its type and the mode it carries
SensorMessage(target, type, mode) == <<target, type, mode>>

\* what CuvetteSensor leaves alone
sensorFrame ==
    UNCHANGED <<analysisVars, hpc, hImage, hFor, workers, cameraReady, camInbox,
                anaInbox, calInFlight, nsTrack, referenceFile, storeVars,
                captureVars, calib, pipeline, gui>>

\* the state after onStart: 128-161 of cuvetteSensor.py (the process starts
\* with the initial mode, the mode is then sent through the pipe); 39-58 of
\* application/cuvetteSensor.py
onStartSensor(variant, is_active) ==
    [NoSensor EXCEPT
        !.variant = variant,
        !.pc = IF variant = "process" THEN "drain" ELSE "poll",
        !.is_active = is_active,
        !.previousState = IF variant = "process" THEN ~is_active ELSE is_active,
        !.isPresent = IF variant = "process" THEN FALSE ELSE is_active,
        !.toMonitor = IF variant = "process" THEN <<"Analysis">> ELSE <<>>]

SensorInit ==
    /\ calibrationInProgress = FALSE
    /\ newSubstanceState = None
    /\ baseIntensityProfile = None
    /\ configBaseProfile = None
    /\ referenceFile = EmptyFile
    /\ referenceSpectra = onStart(referenceFile)
    /\ hpc = "idle"
    /\ hImage = ""
    /\ hFor = ""
    /\ workers = [t \in Threads |-> 0]
    /\ cameraReady = TRUE
    /\ camInbox = [c \in CameraCommands |-> 0]
    /\ anaInbox = [m \in CameraMessages |-> 0]
    /\ budget = MaxModeCmds
    /\ out = {}
    /\ calInFlight = FALSE
    /\ nsTrack = FreshTrack
    /\ storePc = "idle"
    /\ storeArg = None
    /\ captureLock = 0
    /\ lightReady = FALSE
    /\ capture = [w \in 1..MaxCaptures |-> NoCapture]
    /\ sweepPc = 0
    /\ lightInbox = NoAcks
    /\ lightLog = "TurnOff"
    /\ calib = NoCalib
    /\ pipeline = NoPipeline
    /\ gui = NoGui
    /\ \E variant \in Variants, is_active \in BOOLEAN :
          sensor = onStartSensor(variant, is_active)

\* CuvetteSensor.handleMessage, 258-275 (108-118 in application/): the mode
\* is set, ModeChanged is broadcast, and the process is told the mode
sensorHandleMessage ==
    /\ budget > 0
    /\ budget' = budget - 1
    /\ \E msgType \in Modes :
          /\ sensor' = [sensor EXCEPT
                           !.mode = msgType,
                           !.toMonitor = IF sensor.variant = "process"
                                         THEN Append(@, msgType) ELSE @]
          /\ out' = {SensorMessage("All", "ModeChanged", msgType)}
    /\ sensorFrame

\* the cuvette is put in or taken out
moveCuvette ==
    /\ sensor.toggles < MaxToggles
    /\ sensor' = [sensor EXCEPT !.toggles = @ + 1, !.is_active = ~@]
    /\ out' = {}
    /\ budget' = budget
    /\ sensorFrame

\* the mode after the commands of the pipe, in order
lastMode(mode, commands) ==
    IF commands = <<>> THEN mode ELSE commands[Len(commands)]

\* _presence_monitor, 57-68: the commands of the pipe are taken
monitorDrain ==
    /\ sensor.variant = "process"
    /\ sensor.pc = "drain"
    /\ sensor' = [sensor EXCEPT
                     !.monitorMode = lastMode(@, sensor.toMonitor),
                     !.toMonitor = <<>>,
                     !.pc = "read"]
    /\ out' = {}
    /\ budget' = budget
    /\ sensorFrame

\* _presence_monitor, 72-84: the sensor is read, a change is reported with
\* the mode of the process, and the process sleeps
monitorRead ==
    /\ sensor.variant = "process"
    /\ sensor.pc = "read"
    /\ LET currentState == ~sensor.is_active IN
          sensor' = [sensor EXCEPT
              !.toListener =
                  IF currentState # sensor.previousState
                  THEN Append(@, [present |-> currentState,
                                  mode |-> sensor.monitorMode,
                                  detectedIn |-> sensor.mode])
                  ELSE @,
              !.previousState = currentState,
              !.pc = "drain"]
    /\ out' = {}
    /\ budget' = budget
    /\ sensorFrame

\* CuvetteSensor._handle_presence_event, 206-221
handle_presence_event(isPresent, mode) ==
    IF isPresent
    THEN IF mode = "Analysis"
         THEN {SensorMessage("Camera", "CuvettePresent", "")}
         ELSE {SensorMessage("Analysis", "AddSubstance", "")}
    ELSE IF mode = "Analysis"
         THEN {SensorMessage("Camera", "CuvetteAbsent", "")}
         ELSE {SensorMessage("Analysis", "CuvetteAbsent", "")}

\* _presence_listener_loop and _process_presence_message, 166-198: a report
\* is dispatched with the mode it carries, or self.mode when it carries none
listenerDispatch ==
    /\ sensor.variant = "process"
    /\ sensor.toListener # <<>>
    /\ LET payload == Head(sensor.toListener)
           mode == IF payload.mode = "" THEN sensor.mode ELSE payload.mode
       IN  /\ sensor' = [sensor EXCEPT
                            !.toListener = Tail(@),
                            !.isPresent = payload.present,
                            !.dispatched = @ + 1,
                            !.detectedIn = payload.detectedIn]
           /\ out' = handle_presence_event(payload.present, mode)
    /\ budget' = budget
    /\ sensorFrame

\* application/cuvetteSensor.py, _presence_loop 60-76 with
\* _handle_presence_transition, _on_presence_detected and _on_presence_lost,
\* 78-102: a change is dispatched by self.mode as the thread reads it
presenceLoop ==
    /\ sensor.variant = "thread"
    /\ sensor.pc = "poll"
    /\ sensor.is_active # sensor.previousState
    /\ sensor' = [sensor EXCEPT
                     !.previousState = sensor.is_active,
                     !.isPresent = sensor.previousState /\ ~sensor.is_active,
                     !.dispatched = @ + 1,
                     !.detectedIn = sensor.mode]
    /\ out' = IF sensor.previousState /\ ~sensor.is_active
              THEN IF sensor.mode = "Analysis"
                   THEN {SensorMessage("Camera", "CuvettePresent", "")}
                   ELSE {SensorMessage("Analysis", "AddSubstance", "")}
              ELSE {SensorMessage("All", "CuvetteAbsent", "")}
    /\ budget' = budget
    /\ sensorFrame

SensorNext ==
    \/ sensorHandleMessage
    \/ moveCuvette
    \/ monitorDrain
    \/ monitorRead
    \/ listenerDispatch
    \/ presenceLoop

SensorSpec == SensorInit /\ [][SensorNext]_vars

\* the message an insertion is dispatched with under a mode
InsertionUnder(mode) ==
    IF mode = "Analysis"
    THEN SensorMessage("Camera", "CuvettePresent", "")
    ELSE SensorMessage("Analysis", "AddSubstance", "")

\* C40: an insertion is dispatched by the mode CuvetteSensor had when the
\* sensor was read: CuvettePresent to Camera under Analysis, AddSubstance to
\* Analysis under AddSubstance; never by the mode of before the last
\* ModeChanged that preceded the reading.
C40_DispatchedByModeAtDetection ==
    [][(sensor'.dispatched > sensor.dispatched /\ sensor'.isPresent) =>
          out' = {InsertionUnder(sensor'.detectedIn)}]_vars

\* an insertion read after the mode became AddSubstance waits for the
\* listener with the mode Analysis
C40_Witness ==
    /\ sensor.variant = "process"
    /\ sensor.toListener # <<>>
    /\ Head(sensor.toListener) = [present |-> TRUE, mode |-> "Analysis",
                                  detectedIn |-> "AddSubstance"]
    /\ sensor.mode = "AddSubstance"

====
